---- MODULE Spec2Model ----
(***************************************************************************)
(* hk-holidays: the holiday-date normalisation of                          *)
(* scripts/fetch_company_holidays.mjs (1823 feeds -> company_holidays)     *)
(* and of generate.js (GovHK + 1823 + Labour -> hk_holidays_2017_2026).    *)
(*                                                                         *)
(* JavaScript strings are TLA+ strings (Len, SubSeq and \o act on them);   *)
(* a JavaScript value of unknown type is a record tagged by its type.      *)
(***************************************************************************)
EXTENDS Integers, Sequences, FiniteSets, TLC

VARIABLES
    fn,        \* pure-function harness: the function applied ("none" before)
    arg,       \* pure-function harness: its input
    res,       \* pure-function harness: its result
    pc,        \* fetch_company_holidays.mjs: position of main()
    env,       \* fetch_company_holidays.mjs: the files, the flag, the network
    all,       \* fetch_company_holidays.mjs: main's `all` (get1823List's result)
    yi,        \* fetch_company_holidays.mjs: index of the year main's loop is at
    lists,     \* fetch_company_holidays.mjs: byYear, year string -> list
    statsOf,   \* fetch_company_holidays.mjs: year string -> the `stats` got for it
    files,     \* fetch_company_holidays.mjs: files written, name -> list
    report,    \* fetch_company_holidays.mjs: rows of the report and its total
    log,       \* fetch_company_holidays.mjs: console.warn / fetch events so far
    gpc,       \* generate.js: position of the main IIFE
    gy,        \* generate.js: the year the main loop is at
    gen1823,   \* generate.js: gen1823, the list get1823All returned
    gall,      \* generate.js: main's `all`
    gout,      \* generate.js: the list written to hk_holidays_2017_2026.json
    gbudget,   \* generate.js: years whose pages may still be available
    glog,      \* generate.js: the warnings that a source is skipped, <<source, year>>
    rpc,       \* fetchSafe: position ("loop", "sleep", "returned")
    rcall,     \* fetchSafe: its arguments and what fetch() does at each attempt
    attempt,   \* fetchSafe: the loop variable `attempt`
    rlog,      \* fetchSafe: the requests, warnings and sleeps so far, in order
    rret       \* fetchSafe: the value returned

vars == <<fn, arg, res, pc, env, all, yi, lists, statsOf, files, report, log,
          gpc, gy, gen1823, gall, gout, gbudget, glog, rpc, rcall, attempt, rlog, rret>>

fnVars == <<fn, arg, res>>
fetchVars == <<pc, env, all, yi, lists, statsOf, files, report, log>>
genVars == <<gpc, gy, gen1823, gall, gout, gbudget, glog>>
retryVars == <<rpc, rcall, attempt, rlog, rret>>

(***************************************************************************)
(* Program constants                                                       *)
(***************************************************************************)
START_YEAR == 2017
END_YEAR == 2026

(***************************************************************************)
(* Strings                                                                 *)
(***************************************************************************)
Ch(s, i) == SubSeq(s, i, i)

Digits == {"0", "1", "2", "3", "4", "5", "6", "7", "8", "9"}

AllDigits(s) == \A i \in 1..Len(s) : Ch(s, i) \in Digits

DigitVal(c) == CHOOSE d \in 0..9 : Ch("0123456789", d + 1) = c

RECURSIVE StrToNat(_)
StrToNat(s) ==
    IF Len(s) = 0 THEN 0
    ELSE 10 * StrToNat(SubSeq(s, 1, Len(s) - 1)) + DigitVal(Ch(s, Len(s)))

RECURSIVE NatToStr(_)
NatToStr(n) ==
    IF n < 10 THEN Ch("0123456789", n + 1)
    ELSE NatToStr(n \div 10) \o Ch("0123456789", (n % 10) + 1)

\* String.prototype.padStart(2, '0')
PadStart2(s) ==
    IF Len(s) >= 2 THEN s
    ELSE IF Len(s) = 1 THEN "0" \o s
    ELSE "00"

\* index of the first occurrence of the one-character string c in s, 0 if none
IndexOf(s, c) ==
    IF \E i \in 1..Len(s) : Ch(s, i) = c
    THEN CHOOSE i \in 1..Len(s) :
            /\ Ch(s, i) = c
            /\ \A j \in 1..(i - 1) : Ch(s, j) # c
    ELSE 0

Whitespace == {" "}

RECURSIVE TrimLeft(_)
TrimLeft(s) ==
    IF Len(s) > 0 /\ Ch(s, 1) \in Whitespace
    THEN TrimLeft(SubSeq(s, 2, Len(s)))
    ELSE s

RECURSIVE TrimRight(_)
TrimRight(s) ==
    IF Len(s) > 0 /\ Ch(s, Len(s)) \in Whitespace
    THEN TrimRight(SubSeq(s, 1, Len(s) - 1))
    ELSE s

\* String.prototype.trim
Trim(s) == TrimRight(TrimLeft(s))

\* the collation rank localeCompare gives a character of a date string:
\* punctuation before digits before letters, letters without regard to case
CharRank(c) ==
    CASE c = "-" -> 1
      [] c \in Digits -> 10 + DigitVal(c)
      [] c \in {"a", "A"} -> 30
      [] c \in {"n", "N"} -> 40
      [] OTHER -> 50

RECURSIVE LocaleLess(_, _)
\* a.localeCompare(b) < 0 on the strings a date field can hold
LocaleLess(a, b) ==
    IF Len(b) = 0 THEN FALSE
    ELSE IF Len(a) = 0 THEN TRUE
    ELSE IF CharRank(Ch(a, 1)) # CharRank(Ch(b, 1))
         THEN CharRank(Ch(a, 1)) < CharRank(Ch(b, 1))
    ELSE LocaleLess(SubSeq(a, 2, Len(a)), SubSeq(b, 2, Len(b)))

(***************************************************************************)
(* JavaScript values as read from JSON                                     *)
(***************************************************************************)
Undef == [t |-> "undef", s |-> "", n |-> 0, a |-> <<>>]
Str(x) == [t |-> "str", s |-> x, n |-> 0, a |-> <<>>]
Num(x) == [t |-> "num", s |-> "", n |-> x, a |-> <<>>]
Arr(x) == [t |-> "arr", s |-> "", n |-> 0, a |-> x]

\* ToBoolean: undefined, null, '' and 0 are falsy, every array is truthy
Truthy(v) ==
    CASE v.t = "undef" -> FALSE
      [] v.t = "str" -> v.s # ""
      [] v.t = "num" -> v.n # 0
      [] OTHER -> TRUE

\* a || b
Or(a, b) == IF Truthy(a) THEN a ELSE b

\* Array.isArray(v) ? v[0] : v
FirstIfArray(v) ==
    IF v.t = "arr"
    THEN (IF Len(v.a) > 0 THEN v.a[1] ELSE Undef)
    ELSE v

RECURSIVE JoinComma(_)
JoinComma(a) ==
    IF Len(a) = 0 THEN ""
    ELSE IF Len(a) = 1 THEN (IF a[1].t = "str" THEN a[1].s ELSE NatToStr(a[1].n))
    ELSE (IF a[1].t = "str" THEN a[1].s ELSE NatToStr(a[1].n)) \o "," \o JoinComma(Tail(a))

\* String(v) of a truthy value
JsString(v) ==
    CASE v.t = "str" -> v.s
      [] v.t = "num" -> NatToStr(v.n)
      [] v.t = "arr" -> JoinComma(v.a)
      [] OTHER -> "undefined"

\* obj[key], undefined when the object has no such property
Get(item, k) == IF k \in DOMAIN item THEN item[k] ELSE Undef

(***************************************************************************)
(* Calendar arithmetic (Date.UTC)                                          *)
(***************************************************************************)
IsLeap(y) == (y % 4 = 0 /\ y % 100 # 0) \/ y % 400 = 0

MonthLength(y, m) ==
    CASE m = 2 -> (IF IsLeap(y) THEN 29 ELSE 28)
      [] m \in {4, 6, 9, 11} -> 30
      [] OTHER -> 31

\* new Date(Date.UTC(y, m, 0)).getUTCDate(): the last day of the 1-based month
\* m of year y, months outside 1..12 carried into the neighbouring years
LastDayOfMonth(y, m) ==
    MonthLength(y + ((m - 1) \div 12), ((m - 1) % 12) + 1)

\* days from 1 January of year 1 to the given day (proleptic Gregorian)
RECURSIVE DaysBeforeMonth(_, _)
DaysBeforeMonth(y, m) ==
    IF m <= 1 THEN 0 ELSE DaysBeforeMonth(y, m - 1) + MonthLength(y, m - 1)

DayNumber(y, m, d) ==
    LET p == y - 1
    IN  365 * p + (p \div 4) - (p \div 100) + (p \div 400) + DaysBeforeMonth(y, m) + d

\* new Date(Date.UTC(y, m - 1, d)).getUTCDay(): 0 = Sunday .. 6 = Saturday
\* (1 January of year 1 is a Monday)
UTCDay(y, m, d) == DayNumber(y, m, d) % 7

(***************************************************************************)
(* The date normalizer                                                     *)
(***************************************************************************)
\* v.replace(/T.*$/, ''): everything from the first 'T' on is dropped
StripT(v) ==
    IF IndexOf(v, "T") = 0 THEN v ELSE SubSeq(v, 1, IndexOf(v, "T") - 1)

\* /^\d{8}$/.test(v)
IsEightDigits(v) == Len(v) = 8 /\ AllDigits(v)

\* /^\d{4}-\d{2}-\d{2}$/.test(v)
IsIsoShape(v) ==
    /\ Len(v) = 10
    /\ AllDigits(SubSeq(v, 1, 4))
    /\ Ch(v, 5) = "-"
    /\ AllDigits(SubSeq(v, 6, 7))
    /\ Ch(v, 8) = "-"
    /\ AllDigits(SubSeq(v, 9, 10))

\* `${v.slice(0,4)}-${v.slice(4,6)}-${v.slice(6,8)}`
Hyphenate(v) == SubSeq(v, 1, 4) \o "-" \o SubSeq(v, 5, 6) \o "-" \o SubSeq(v, 7, 8)

getDate(item) ==
    LET d == Or(Get(item, "date"), Or(Get(item, "dtstart"),
             Or(Get(item, "dtstart;value=date"), Or(Get(item, "DTSTART"),
                Get(item, "DTSTART;VALUE=DATE")))))
        v == FirstIfArray(d)
    IN  IF ~Truthy(v) THEN ""
        ELSE LET w == StripT(JsString(v))
             IN  IF IsEightDigits(w) THEN Hyphenate(w)
                 ELSE IF IsIsoShape(w) THEN w
                 ELSE ""

parseRuleDate(v) ==
    IF v = "" THEN ""
    ELSE LET w == StripT(v)
         IN  IF IsEightDigits(w) THEN Hyphenate(w)
             ELSE IF IsIsoShape(w) THEN w
             ELSE ""

(***************************************************************************)
(* JavaScript numbers as Number() and parseInt() give them: an integer or  *)
(* NaN.  The strings of the model hold no fraction, exponent or radix       *)
(* prefix.                                                                 *)
(***************************************************************************)
NaN == [nan |-> TRUE, v |-> 0]
Int_(x) == [nan |-> FALSE, v |-> x]

\* Number(s)
JsNumber(s) ==
    LET w == Trim(s)
    IN  IF w = "" THEN Int_(0)
        ELSE IF AllDigits(w) THEN Int_(StrToNat(w))
        ELSE IF Len(w) > 1 /\ Ch(w, 1) = "-" /\ AllDigits(SubSeq(w, 2, Len(w)))
             THEN Int_(0 - StrToNat(SubSeq(w, 2, Len(w))))
        ELSE IF Len(w) > 1 /\ Ch(w, 1) = "+" /\ AllDigits(SubSeq(w, 2, Len(w)))
             THEN Int_(StrToNat(SubSeq(w, 2, Len(w))))
        ELSE NaN

\* String(x) of a number
JsNumToStr(x) ==
    IF x.nan THEN "NaN"
    ELSE IF x.v < 0 THEN "-" \o NatToStr(0 - x.v)
    ELSE NatToStr(x.v)

\* a < b and a > b: false as soon as one side is NaN
JsLt(a, b) == ~a.nan /\ ~b.nan /\ a.v < b.v
JsGt(a, b) == ~a.nan /\ ~b.nan /\ a.v > b.v

\* the UTF-16 code-unit order of the characters a rule or a date can hold
AsciiOrder == " +,-0123456789:;=ABCDEFGHIJKLMNOPQRSTUVWXYZ_abcdefghijklmnopqrstuvwxyz"

CodeUnit(c) == IndexOf(AsciiOrder, c)

RECURSIVE StrLeq(_, _)
\* a <= b on strings
StrLeq(a, b) ==
    IF Len(a) = 0 THEN TRUE
    ELSE IF Len(b) = 0 THEN FALSE
    ELSE IF CodeUnit(Ch(a, 1)) # CodeUnit(Ch(b, 1))
         THEN CodeUnit(Ch(a, 1)) < CodeUnit(Ch(b, 1))
    ELSE StrLeq(SubSeq(a, 2, Len(a)), SubSeq(b, 2, Len(b)))

UpperLetters == "ABCDEFGHIJKLMNOPQRSTUVWXYZ"
LowerLetters == "abcdefghijklmnopqrstuvwxyz"

IsUpper(c) == IndexOf(UpperLetters, c) # 0

RECURSIVE ToUpperCase(_)
ToUpperCase(s) ==
    IF Len(s) = 0 THEN ""
    ELSE (IF IndexOf(LowerLetters, Ch(s, 1)) # 0
          THEN Ch(UpperLetters, IndexOf(LowerLetters, Ch(s, 1)))
          ELSE Ch(s, 1)) \o ToUpperCase(SubSeq(s, 2, Len(s)))

RECURSIVE Split(_, _)
\* s.split(c) for a one-character separator c
Split(s, c) ==
    IF IndexOf(s, c) = 0 THEN <<s>>
    ELSE <<SubSeq(s, 1, IndexOf(s, c) - 1)>>
            \o Split(SubSeq(s, IndexOf(s, c) + 1, Len(s)), c)

RECURSIVE MapNumber(_)
\* xs.map(Number)
MapNumber(xs) ==
    IF Len(xs) = 0 THEN <<>> ELSE <<JsNumber(xs[1])>> \o MapNumber(Tail(xs))

RECURSIVE Insert(_, _)
Insert(x, xs) ==
    IF Len(xs) = 0 THEN <<x>>
    ELSE IF xs[1] > x THEN <<x>> \o xs
    ELSE <<xs[1]>> \o Insert(x, Tail(xs))

RECURSIVE SortNums(_)
\* xs.sort((a, b) => a - b), a stable sort of integers
SortNums(xs) ==
    IF Len(xs) = 0 THEN <<>>
    ELSE Insert(xs[Len(xs)], SortNums(SubSeq(xs, 1, Len(xs) - 1)))

(***************************************************************************)
(* Recurrence rules                                                        *)
(***************************************************************************)
WEEKDAYS == <<"SU", "MO", "TU", "WE", "TH", "FR", "SA">>

\* WEEKDAYS.indexOf(w), 0-based, -1 when absent
WeekdayIndex(w) ==
    IF \E i \in 1..7 : WEEKDAYS[i] = w
    THEN (CHOOSE i \in 1..7 : WEEKDAYS[i] = w) - 1
    ELSE -1

RECURSIVE ParseParts(_)
\* the forEach of parseRRule over the ';'-separated parts, later keys overriding
ParseParts(parts) ==
    IF Len(parts) = 0 THEN <<>>
    ELSE LET prev == ParseParts(SubSeq(parts, 1, Len(parts) - 1))
             kv == Split(parts[Len(parts)], "=")
             k == kv[1]
             v == IF Len(kv) >= 2 THEN kv[2] ELSE ""
         IN  IF k # "" /\ v # ""
             THEN [key \in (DOMAIN prev) \cup {ToUpperCase(k)} |->
                      IF key = ToUpperCase(k) THEN v ELSE prev[key]]
             ELSE prev

parseRRule(str) == ParseParts(Split(str, ";"))

\* rule.KEY, '' standing for undefined (a stored value is never empty)
RuleGet(rule, k) == IF k \in DOMAIN rule THEN rule[k] ELSE ""

\* the year and the 1-based month Date.UTC(year, month - 1, ..) falls in
CarryYear(y, m) == y + ((m - 1) \div 12)
CarryMonth(m) == ((m - 1) % 12) + 1

nthWeekday_NoLastCheck(year, month, weekday, n) ==
    IF n = 0 \/ month.nan THEN 0
    ELSE LET cy == CarryYear(year, month.v)
             cm == CarryMonth(month.v)
             lastDay == MonthLength(cy, cm)
         IN  IF n > 0
             THEN 1 + ((weekday - UTCDay(cy, cm, 1) + 7) % 7) + 7 * (n - 1)
             ELSE LET offset == (UTCDay(cy, cm, lastDay) - weekday + 7) % 7
                      day == lastDay - offset + 7 * (n + 1)
                  IN  IF day >= 1 THEN day ELSE 0

\* null is 0 (a day of the month is never 0); month is a number or NaN
nthWeekday(year, month, weekday, n) ==
    IF n = 0 \/ month.nan THEN 0
    ELSE LET cy == CarryYear(year, month.v)
             cm == CarryMonth(month.v)
             lastDay == MonthLength(cy, cm)
         IN  IF n > 0
             THEN LET offset == (weekday - UTCDay(cy, cm, 1) + 7) % 7
                      day == 1 + offset + 7 * (n - 1)
                  IN  IF day <= lastDay THEN day ELSE 0
             ELSE LET offset == (UTCDay(cy, cm, lastDay) - weekday + 7) % 7
                      day == lastDay - offset + 7 * (n + 1)
                  IN  IF day >= 1 THEN day ELSE 0

RECURSIVE EverySeventh(_, _)
EverySeventh(day, last) ==
    IF day <= last THEN <<day>> \o EverySeventh(day + 7, last) ELSE <<>>

allWeekdays(year, month, weekday) ==
    IF month.nan THEN <<>>
    ELSE LET cy == CarryYear(year, month.v)
             cm == CarryMonth(month.v)
             offset == (weekday - UTCDay(cy, cm, 1) + 7) % 7
         IN  EverySeventh(1 + offset, MonthLength(cy, cm))

\* first index >= j of entry that holds no digit (Len + 1 when none)
DigitsEnd(entry, j) ==
    IF \E k \in j..Len(entry) : Ch(entry, k) \notin Digits
    THEN CHOOSE k \in j..Len(entry) :
            /\ Ch(entry, k) \notin Digits
            /\ \A q \in j..(k - 1) : Ch(entry, q) \in Digits
    ELSE Len(entry) + 1

TwoUppers(entry, k) ==
    k + 1 <= Len(entry) /\ IsUpper(Ch(entry, k)) /\ IsUpper(Ch(entry, k + 1))

\* /(-?\d+)?([A-Z]{2})/ tried at index i: [ok, n (match[1], '' if absent), w]
MatchAt(entry, i) ==
    LET j == IF Ch(entry, i) = "-" THEN i + 1 ELSE i
        k == DigitsEnd(entry, j)
    IN  IF k > j /\ TwoUppers(entry, k)
        THEN [ok |-> TRUE, n |-> SubSeq(entry, i, k - 1), w |-> SubSeq(entry, k, k + 1)]
        ELSE IF TwoUppers(entry, i)
        THEN [ok |-> TRUE, n |-> "", w |-> SubSeq(entry, i, i + 1)]
        ELSE [ok |-> FALSE, n |-> "", w |-> ""]

\* entry.match(/(-?\d+)?([A-Z]{2})/): the leftmost match
MatchByDay(entry) ==
    IF \E i \in 1..Len(entry) : MatchAt(entry, i).ok
    THEN MatchAt(entry, CHOOSE i \in 1..Len(entry) :
                    /\ MatchAt(entry, i).ok
                    /\ \A q \in 1..(i - 1) : ~MatchAt(entry, q).ok)
    ELSE [ok |-> FALSE, n |-> "", w |-> ""]

RECURSIVE ByDayDays(_, _, _)
\* the loop over byDay that fills tmp (before the sort)
ByDayDays(byDay, y, m) ==
    IF Len(byDay) = 0 THEN <<>>
    ELSE LET tmp == ByDayDays(SubSeq(byDay, 1, Len(byDay) - 1), y, m)
             match == MatchByDay(byDay[Len(byDay)])
             n == IF match.n # "" THEN JsNumber(match.n).v ELSE 0
             w == WeekdayIndex(match.w)
         IN  IF ~match.ok \/ w = -1 THEN tmp
             ELSE IF n # 0
                  THEN (IF nthWeekday(y, m, w, n) # 0
                        THEN Append(tmp, nthWeekday(y, m, w, n)) ELSE tmp)
                  ELSE tmp \o allWeekdays(y, m, w)

RECURSIVE SelectPos(_, _)
\* the loop over bySetPos that fills selected
SelectPos(bySetPos, tmp) ==
    IF Len(bySetPos) = 0 THEN <<>>
    ELSE LET selected == SelectPos(SubSeq(bySetPos, 1, Len(bySetPos) - 1), tmp)
             pos == bySetPos[Len(bySetPos)]
             idx == IF pos.v > 0 THEN pos.v - 1 ELSE Len(tmp) + pos.v
         IN  IF ~pos.nan /\ idx >= 0 /\ idx < Len(tmp)
             THEN Append(selected, tmp[idx + 1]) ELSE selected

RECURSIVE ToJsNums(_)
ToJsNums(xs) == IF Len(xs) = 0 THEN <<>> ELSE <<Int_(xs[1])>> \o ToJsNums(Tail(xs))

\* the day before (m, d) of year y, as [month, day]
PrevDay(y, m, d) ==
    IF d > 1 THEN [month |-> m, day |-> d - 1]
    ELSE IF m > 1 THEN [month |-> m - 1, day |-> MonthLength(y, m - 1)]
    ELSE [month |-> 12, day |-> 31]

\* new Date(`${base}T00:00:00`): local midnight of base, read back with
\* getUTCMonth() + 1 and getUTCDate().  base has the shape dddd-dd-dd.  The
\* parser takes a month 1..12 and a day 1..31 and carries a day past the end of
\* the month into the next month; anything else is an Invalid Date (NaN).  On a
\* host east of Greenwich local midnight is still the previous day in UTC.
BaseUTC(base, tzEast) ==
    LET y == StrToNat(SubSeq(base, 1, 4))
        m == StrToNat(SubSeq(base, 6, 7))
        d == StrToNat(SubSeq(base, 9, 10))
    IN  IF m < 1 \/ m > 12 \/ d < 1 \/ d > 31
        THEN [month |-> NaN, day |-> NaN]
        ELSE LET over == d > MonthLength(y, m)
                 lm == IF over THEN m + 1 ELSE m
                 ld == IF over THEN d - MonthLength(y, m) ELSE d
                 u == IF tzEast THEN PrevDay(y, lm, ld) ELSE [month |-> lm, day |-> ld]
             IN  [month |-> Int_(u.month), day |-> Int_(u.day)]

\* the value of `days` for year y and month m
DaysOf(cx, y, m) ==
    IF cx.hasMonthDay THEN cx.byMonthDay
    ELSE IF cx.hasByDay
         THEN LET tmp == SortNums(ByDayDays(cx.byDay, y, m))
              IN  IF cx.hasSetPos /\ Len(tmp) > 0
                  THEN ToJsNums(SelectPos(cx.bySetPos, tmp))
                  ELSE ToJsNums(tmp)
    ELSE <<cx.baseDay>>

\* `${y}-${String(m).padStart(2,'0')}-${String(d).padStart(2,'0')}`
IsoOf(y, m, d) ==
    NatToStr(y) \o "-" \o PadStart2(JsNumToStr(m)) \o "-" \o PadStart2(JsNumToStr(d))

LastOf(y, m) == IF m.nan THEN NaN ELSE Int_(LastDayOfMonth(y, m.v))

RECURSIVE EmitDays(_, _, _, _)
EmitDays_NoRangeCheck(days, y, m, until) ==
    IF Len(days) = 0 THEN <<>>
    ELSE LET out == EmitDays(SubSeq(days, 1, Len(days) - 1), y, m, until)
             d == days[Len(days)]
             iso == IsoOf(y, m, d)
         IN  IF until = "" \/ StrLeq(iso, until) THEN Append(out, iso)
             ELSE out

\* the loop over days: out-of-range days are skipped, dates after UNTIL too
EmitDays(days, y, m, until) ==
    IF Len(days) = 0 THEN <<>>
    ELSE LET out == EmitDays(SubSeq(days, 1, Len(days) - 1), y, m, until)
             d == days[Len(days)]
             iso == IsoOf(y, m, d)
         IN  IF JsLt(d, Int_(1)) \/ JsGt(d, LastOf(y, m)) THEN out
             ELSE IF until = "" \/ StrLeq(iso, until) THEN Append(out, iso)
             ELSE out

RECURSIVE OverMonths(_, _, _)
OverMonths(cx, y, months) ==
    IF Len(months) = 0 THEN <<>>
    ELSE OverMonths(cx, y, SubSeq(months, 1, Len(months) - 1))
            \o EmitDays(DaysOf(cx, y, months[Len(months)]), y, months[Len(months)], cx.until)

RECURSIVE OverYears(_, _, _)
\* the loop for (y = START_YEAR; y <= END_YEAR; y++), up to year y
OverYears(cx, y, months) ==
    IF y < START_YEAR THEN <<>>
    ELSE OverYears(cx, y - 1, months) \o OverMonths(cx, y, months)

\* tzEast: whether the host's time zone is east of Greenwich
expandRRule(ruleStr, base, tzEast) ==
    LET rule == parseRRule(ruleStr)
        baseDate == BaseUTC(base, tzEast)
        months == IF RuleGet(rule, "BYMONTH") # ""
                  THEN MapNumber(Split(RuleGet(rule, "BYMONTH"), ","))
                  ELSE <<baseDate.month>>
        cx == [until |-> parseRuleDate(RuleGet(rule, "UNTIL")),
               hasMonthDay |-> RuleGet(rule, "BYMONTHDAY") # "",
               byMonthDay |-> MapNumber(Split(RuleGet(rule, "BYMONTHDAY"), ",")),
               hasByDay |-> RuleGet(rule, "BYDAY") # "",
               byDay |-> Split(RuleGet(rule, "BYDAY"), ","),
               hasSetPos |-> RuleGet(rule, "BYSETPOS") # "",
               bySetPos |-> MapNumber(Split(RuleGet(rule, "BYSETPOS"), ",")),
               baseDay |-> baseDate.day]
    IN  IF RuleGet(rule, "FREQ") # "YEARLY" THEN <<>>
        ELSE OverYears(cx, END_YEAR, months)

(***************************************************************************)
(* Events of a feed                                                        *)
(***************************************************************************)
Range(f) == {f[i] : i \in DOMAIN f}

\* normalize(s) of fetch_company_holidays.mjs, for a string or a falsy value
normalize(v) == IF Truthy(v) THEN Trim(v.s) ELSE ""

\* getName(item, lang): both languages read the same properties
NameValue(item) ==
    FirstIfArray(Or(Get(item, "title"), Or(Get(item, "summary"),
                 Or(Get(item, "name"), Get(item, "SUMMARY")))))

\* (s || '').trim() is a TypeError when s is truthy and not a string
getNameThrows(item) == Truthy(NameValue(item)) /\ NameValue(item).t # "str"

getName(item) == normalize(NameValue(item))

RECURSIVE SetAddAll(_, _)
\* a Set in insertion order, after add() of every element of xs
SetAddAll(set, xs) ==
    IF Len(xs) = 0 THEN set
    ELSE LET prev == SetAddAll(set, SubSeq(xs, 1, Len(xs) - 1))
         IN  IF xs[Len(xs)] \in Range(prev) THEN prev ELSE Append(prev, xs[Len(xs)])

RECURSIVE SetDeleteAll(_, _)
\* a Set in insertion order, after delete() of every element of xs
SetDeleteAll(set, xs) ==
    IF Len(set) = 0 THEN <<>>
    ELSE IF set[1] \in Range(xs) THEN SetDeleteAll(Tail(set), xs)
    ELSE <<set[1]>> \o SetDeleteAll(Tail(set), xs)

RECURSIVE ParseableEntries(_)
ParseableEntries(arr) ==
    IF Len(arr) = 0 THEN <<>>
    ELSE LET iso == getDate([date |-> FirstIfArray(arr[1])])
         IN  (IF iso = "" THEN <<>> ELSE <<iso>>) \o ParseableEntries(Tail(arr))

\* the dates addDates(val, remove) adds or removes: the parseable entries of val
addDates(val) ==
    IF ~Truthy(val) THEN <<>>
    ELSE ParseableEntries(IF val.t = "arr" THEN val.a ELSE <<val>>)

\* whether expandRRule(ruleStr, base) throws: none of its statements does on a
\* value read from JSON (String, split, match and Date all accept any string)
expandRRuleThrows(ruleStr, base) == FALSE

expandDates_ExclusionsFirst(item, tzEast) ==
    LET base == getDate(item)
        ruleStr == Or(Get(item, "rrule"), Get(item, "RRULE"))
        fromRule == IF Truthy(ruleStr) /\ ~expandRRuleThrows(JsString(ruleStr), base)
                    THEN expandRRule(JsString(ruleStr), base, tzEast)
                    ELSE <<>>
        rdates == addDates(Or(Get(item, "rdate"), Get(item, "RDATE")))
        exdates == addDates(Or(Get(item, "exdate"), Get(item, "EXDATE")))
    IN  IF base = "" THEN <<>>
        ELSE SetAddAll(SetAddAll(SetDeleteAll(<<base>>, exdates), fromRule), rdates)

expandDates_RDatesWithoutStart(item, tzEast) ==
    LET base == getDate(item)
        ruleStr == Or(Get(item, "rrule"), Get(item, "RRULE"))
        fromRule == IF Truthy(ruleStr) /\ base # ""
                    THEN expandRRule(JsString(ruleStr), base, tzEast)
                    ELSE <<>>
        rdates == addDates(Or(Get(item, "rdate"), Get(item, "RDATE")))
        exdates == addDates(Or(Get(item, "exdate"), Get(item, "EXDATE")))
    IN  IF base = "" THEN rdates
        ELSE SetDeleteAll(SetAddAll(SetAddAll(<<base>>, fromRule), rdates), exdates)

\* expandDates(item): the Set it returns, in insertion order
expandDates(item, tzEast) ==
    LET base == getDate(item)
        ruleStr == Or(Get(item, "rrule"), Get(item, "RRULE"))
        fromRule == IF Truthy(ruleStr) /\ ~expandRRuleThrows(JsString(ruleStr), base)
                    THEN expandRRule(JsString(ruleStr), base, tzEast)
                    ELSE <<>>
        rdates == addDates(Or(Get(item, "rdate"), Get(item, "RDATE")))
        exdates == addDates(Or(Get(item, "exdate"), Get(item, "EXDATE")))
    IN  IF base = "" THEN <<>>
        ELSE SetDeleteAll(SetAddAll(SetAddAll(<<base>>, fromRule), rdates), exdates)

\* the console.warn calls of expandDates(item): one when the try block throws
expandDatesWarnings(item) ==
    IF /\ getDate(item) # ""
       /\ Truthy(Or(Get(item, "rrule"), Get(item, "RRULE")))
       /\ expandRRuleThrows(JsString(Or(Get(item, "rrule"), Get(item, "RRULE"))), getDate(item))
    THEN {"Failed to parse rrule"}
    ELSE {}

(***************************************************************************)
(* get1823List                                                             *)
(*                                                                         *)
(* A file of the data directory is [status, data]: status "missing",       *)
(* "badjson" (unreadable or not JSON) or "ok"; data, what JSON.parse gives,*)
(* is [shape, events, comps]:                                              *)
(*   "null"    null                                                        *)
(*   "array"   an array of event objects (events)                          *)
(*   "jcal"    ['vcalendar', props, comps], a component being              *)
(*             [name, props], a property <<name, value>>                   *)
(*   "jcalobj" { vcalendar: [ { vevent: events } ] }                       *)
(*   "object"  any other object or scalar                                  *)
(***************************************************************************)
RECURSIVE ToLowerCase(_)
ToLowerCase(s) ==
    IF Len(s) = 0 THEN ""
    ELSE (IF IndexOf(UpperLetters, Ch(s, 1)) # 0
          THEN Ch(LowerLetters, IndexOf(UpperLetters, Ch(s, 1)))
          ELSE Ch(s, 1)) \o ToLowerCase(SubSeq(s, 2, Len(s)))

RECURSIVE PropsToObject(_)
\* the loop over a vevent's properties: obj[name.toLowerCase()] = value
PropsToObject(props) ==
    IF Len(props) = 0 THEN <<>>
    ELSE LET prev == PropsToObject(SubSeq(props, 1, Len(props) - 1))
             name == props[Len(props)][1]
             value == props[Len(props)][2]
         IN  IF name = "" THEN prev
             ELSE [k \in (DOMAIN prev) \cup {ToLowerCase(name)} |->
                      IF k = ToLowerCase(name) THEN value ELSE prev[k]]

RECURSIVE VEvents(_)
\* components.filter(c => c[0] === 'vevent').map(c => object of its properties)
VEvents(comps) ==
    IF Len(comps) = 0 THEN <<>>
    ELSE (IF comps[1].name = "vevent" THEN <<PropsToObject(comps[1].props)>> ELSE <<>>)
            \o VEvents(Tail(comps))

extractEvents(data) ==
    CASE data.shape = "null" -> <<>>
      [] data.shape = "jcal" -> VEvents(data.comps)
      [] data.shape = "array" -> data.events
      [] data.shape = "jcalobj" -> data.events
      [] OTHER -> <<>>

NullData == [shape |-> "null", events |-> <<>>, comps |-> <<>>]

\* enRaw: JSON.parse(readFileSync(EN_FILE)) inside try, null when it throws
ReadEn(file) == IF file.status = "ok" THEN file.data ELSE NullData

\* zhRaw: read only when the file exists, null when reading or parsing throws
ReadZh(file) == IF file.status = "ok" THEN file.data ELSE NullData

\* the console.warn calls of the two reads
\* a log entry is <<kind, year, url, text>>, year and url 0 when there is none
ReadWarnings(enFile, zhFile) ==
    (IF enFile.status # "ok" THEN {<<"warn", 0, 0, "Failed to read en.json">>} ELSE {})
    \cup (IF zhFile.status = "badjson" THEN {<<"warn", 0, 0, "Failed to read zh.json">>}
          ELSE {})

NewRecord(date) ==
    [date |-> date, name_en |-> "", name_zh |-> "", statutory |-> FALSE, source |-> "1823"]

MapUpsert_AlwaysNew(map, date, lang, name) ==
    Append(map, IF lang = "en" THEN [NewRecord(date) EXCEPT !.name_en = name]
                ELSE [NewRecord(date) EXCEPT !.name_zh = name])

\* map.get(date) || {...}; target.name_xx = name; map.set(date, target), the
\* Map being the sequence of its values in insertion order
MapUpsert(map, date, lang, name) ==
    LET at == {i \in DOMAIN map : map[i].date = date}
        target == IF at = {} THEN NewRecord(date) ELSE map[CHOOSE i \in at : TRUE]
        named == IF lang = "en" THEN [target EXCEPT !.name_en = name]
                 ELSE [target EXCEPT !.name_zh = name]
    IN  IF at = {} THEN Append(map, named)
        ELSE [map EXCEPT ![CHOOSE i \in at : TRUE] = named]

RECURSIVE UpsertAll(_, _, _, _)
\* for (const date of dates) { ... }
UpsertAll(map, dates, lang, name) ==
    IF Len(dates) = 0 THEN map
    ELSE UpsertAll(MapUpsert(map, dates[1], lang, name), Tail(dates), lang, name)

\* one pass of the loop over items: an item without dates is skipped; a throw
\* of getName leaves ok FALSE
MergeItem(acc, item, dates, lang) ==
    IF Len(dates) = 0 THEN acc
    ELSE IF getNameThrows(item) THEN [ok |-> FALSE, map |-> acc.map]
    ELSE [ok |-> TRUE, map |-> UpsertAll(acc.map, dates, lang, getName(item))]

RECURSIVE MergeItems(_, _, _, _)
\* the loop over items of one language, until one throws
MergeItems(acc, items, lang, tzEast) ==
    IF Len(items) = 0 \/ ~acc.ok THEN acc
    ELSE MergeItems(MergeItem(acc, items[1], expandDates(items[1], tzEast), lang),
                    Tail(items), lang, tzEast)

\* parseInt(s, 10) of a string without leading blanks or sign: its leading digits
ParseInt(s) ==
    IF DigitsEnd(s, 1) = 1 THEN NaN ELSE Int_(StrToNat(SubSeq(s, 1, DigitsEnd(s, 1) - 1)))

\* the filter of get1823List: parseInt(h.date.slice(0,4), 10) within the range
InYearRange(h) ==
    LET y == ParseInt(SubSeq(h.date, 1, IF Len(h.date) < 4 THEN Len(h.date) ELSE 4))
    IN  ~y.nan /\ y.v >= START_YEAR /\ y.v <= END_YEAR

FilterByYear_None(list) == list

RECURSIVE FilterByYear(_)
FilterByYear(list) ==
    IF Len(list) = 0 THEN <<>>
    ELSE (IF InYearRange(list[1]) THEN <<list[1]>> ELSE <<>>) \o FilterByYear(Tail(list))

RECURSIVE InsertByDate(_, _)
InsertByDate(h, sorted) ==
    IF Len(sorted) = 0 THEN <<h>>
    ELSE IF LocaleLess(h.date, sorted[1].date) THEN <<h>> \o sorted
    ELSE <<sorted[1]>> \o InsertByDate(h, Tail(sorted))

RECURSIVE SortByDate(_)
SortByDate_Unsorted(list) == list

\* list.sort((a, b) => a.date.localeCompare(b.date)), a stable sort
SortByDate(list) ==
    IF Len(list) = 0 THEN <<>>
    ELSE InsertByDate(list[Len(list)], SortByDate(SubSeq(list, 1, Len(list) - 1)))

\* the list get1823List returns from its map: filtered by year, then sorted
ListOf(merged) ==
    [ok |-> merged.ok,
     list |-> IF merged.ok THEN SortByDate(FilterByYear(merged.map)) ELSE <<>>]

\* get1823List(): [ok, list]; ok FALSE when it throws
get1823List(enFile, zhFile, tzEast) ==
    ListOf(MergeItems(MergeItems([ok |-> TRUE, map |-> <<>>],
                                 extractEvents(ReadEn(enFile)), "en", tzEast),
                      extractEvents(ReadZh(zhFile)), "zh", tzEast))

(***************************************************************************)
(* Statutory dates (fetch_company_holidays.mjs)                            *)
(*                                                                         *)
(* What fetch() does with a URL is an outcome [kind, page]: "throw",       *)
(* "nonok" (res.ok false) or "ok" with the page answered.  A page is the   *)
(* sequence of the texts cheerio finds in its li, td, tr and p elements,   *)
(* a text being the part of it a pattern of parseISODate matches:          *)
(*   [kind "dmy", day, month, year]  "<day> <month name> [<year>]"         *)
(*   [kind "iso", text]              "<yyyy>-<mm>-<dd>"                    *)
(*   [kind "none"]                   no date                               *)
(***************************************************************************)
MonthNames == <<"January", "February", "March", "April", "May", "June", "July",
                "August", "September", "October", "November", "December">>

\* String(months[name]): the month table is keyed by the capitalised names
MonthNumberString(name) ==
    IF \E i \in 1..12 : MonthNames[i] = name
    THEN NatToStr(CHOOSE i \in 1..12 : MonthNames[i] = name)
    ELSE "undefined"

parseISODate(text, year) ==
    CASE text.kind = "dmy" ->
            (IF text.year # "" THEN text.year ELSE NatToStr(year)) \o "-"
                \o PadStart2(MonthNumberString(text.month)) \o "-" \o PadStart2(text.day)
      [] text.kind = "iso" -> text.text
      [] OTHER -> ""

\* fetchHtml([url1, url2]) when fetch() does o1 with url1 and o2 with url2:
\* the text of the first URL that answers ok
fetchHtml(o1, o2) ==
    IF o1.kind = "ok" THEN o1.page
    ELSE IF o2.kind = "ok" THEN o2.page
    ELSE <<>>

\* the requests fetchHtml makes and the warnings it logs, for year y
fetchHtmlLog(y, o1, o2) ==
    {<<"fetch", y, 1, o1.kind>>}
    \cup (IF o1.kind = "throw" THEN {<<"warn", y, 1, "Failed to fetch">>} ELSE {})
    \cup (IF o1.kind # "ok" THEN {<<"fetch", y, 2, o2.kind>>} ELSE {})
    \cup (IF o1.kind # "ok" /\ o2.kind = "throw"
          THEN {<<"warn", y, 2, "Failed to fetch">>} ELSE {})

\* getStatutoryDates(year) given the html fetchHtml returned
getStatutoryDates(year, html, cheerioOk) ==
    IF Len(html) = 0 THEN {}
    ELSE IF ~cheerioOk THEN {}
    ELSE {iso \in {parseISODate(html[i], year) : i \in DOMAIN html} : IsIsoShape(iso)}

getStatutoryDatesLog(y, html, cheerioOk) ==
    IF Len(html) # 0 /\ ~cheerioOk THEN {<<"warn", y, 0, "cheerio not available">>} ELSE {}

(***************************************************************************)
(* Inputs of fetch_company_holidays.mjs                                    *)
(***************************************************************************)
MdRule(m, d) == "FREQ=YEARLY;BYMONTH=" \o NatToStr(m) \o ";BYMONTHDAY=" \o NatToStr(d)

ArrayData(events) == [shape |-> "array", events |-> events, comps |-> <<>>]
JCalData(comps) == [shape |-> "jcal", events |-> <<>>, comps |-> comps]
JCalObjectData(events) == [shape |-> "jcalobj", events |-> events, comps |-> <<>>]
ObjectData == [shape |-> "object", events |-> <<>>, comps |-> <<>>]

Missing == [status |-> "missing", data |-> NullData]
BadJson == [status |-> "badjson", data |-> NullData]
Ok(data) == [status |-> "ok", data |-> data]

\* events without a parseable start date
NoStartEvent ==
    [title |-> Str("Floating Day"), rrule |-> Str(MdRule(6, 1)), rdate |-> Str("20240606")]
BadStartEvent ==
    [date |-> Str("1 Jan 2024"), title |-> Str("Unreadable Day"),
     rdate |-> Arr(<<Str("20240707")>>)]

EnFiles ==
    <<Missing, BadJson, Ok(NullData), Ok(ArrayData(<<>>)), Ok(ObjectData),
     Ok(ArrayData(<<NoStartEvent, BadStartEvent>>)),
     Ok(ArrayData(<<[date |-> Str("20240101"), title |-> Str("New Year")]>>)),
     Ok(ArrayData(<<[date |-> Str("20241225"), title |-> Str("Christmas Day")],
                    [dtstart |-> Str("2024-01-01T00:00:00"), summary |-> Str(" New Year ")],
                    BadStartEvent,
                    [date |-> Num(20300101), title |-> Str("Far Away")],
                    [date |-> Str("2025-01-01"), name |-> Arr(<<Str("New Year 2025")>>)],
                    [date |-> Str("20241225"), title |-> Str("Xmas")]>>)),
     Ok(JCalData(<<[name |-> "vtimezone", props |-> <<<<"tzid", Str("Asia/Hong_Kong")>>>>],
                   [name |-> "vevent",
                    props |-> <<<<"DTSTART", Str("20181001")>>,
                                <<"SUMMARY", Str("National Day")>>,
                                <<"", Str("nameless")>>,
                                <<"RRULE", Str("FREQ=YEARLY;UNTIL=20191231")>>>>],
                   [name |-> "vevent",
                    props |-> <<<<"dtstart", Str("20170128")>>,
                                <<"summary", Str("Lunar New Year")>>>>]>>)),
     Ok(JCalObjectData(<<[DTSTART |-> Arr(<<Str("20240404")>>), SUMMARY |-> Str("Ching Ming")],
                         NoStartEvent>>)),
     Ok(ArrayData(<<[date |-> Str("20240101"), title |-> Str("New Year")],
                    [date |-> Str("20240210"), title |-> Num(2024)]>>)),
     Ok(ArrayData(<<[date |-> Str("20240501"), title |-> Str("Labour Day"),
                     rdate |-> Arr(<<Str("20250501"), Str("bad"), Arr(<<Str("20260501")>>)>>),
                     exdate |-> Arr(<<Str("nope"), Str("2025-05-01")>>)],
                    [date |-> Str("20240229"), title |-> Str("Leap Day"),
                     EXDATE |-> Str("20240229")]>>)),
     Ok(ArrayData(<<[date |-> Str("20180505"), title |-> Str("Broken Rule"),
                     rrule |-> Str("FREQ=YEARLY;BYMONTH=XX;BYMONTHDAY=5;UNTIL=20181231")],
                    [date |-> Str("20241332"), title |-> Str("No Such Day")]>>)),
     Ok(JCalObjectData(<<[DTSTART |-> Arr(<<Str("2018-10-01T00:00:00")>>),
                          SUMMARY |-> Arr(<<Str(" National Day ")>>)]>>)),
     Ok(ArrayData(<<[date |-> Str("20100701"), title |-> Str("Establishment Day"),
                     rrule |-> Str("FREQ=YEARLY;UNTIL=20181231T000000Z"),
                     rdate |-> Arr(<<Str("20160701"), Str("20270701"), Str("20200701")>>)]>>))>>

ZhFiles ==
    <<Missing, BadJson, Ok(ArrayData(<<>>)),
     Ok(ArrayData(<<[date |-> Str("20240101"), title |-> Str("Yuandan")]>>)),
     Ok(ArrayData(<<[date |-> Str("2024-12-25"), title |-> Str("Shengdan")],
                    [date |-> Str("20240101"), summary |-> Str("Yuandan ")],
                    NoStartEvent,
                    [date |-> Str("20260101"), title |-> Undef]>>)),
     Ok(JCalData(<<[name |-> "vevent",
                    props |-> <<<<"DTSTART", Str("20181001")>>,
                                <<"SUMMARY", Str("Guoqing")>>>>]>>))>>

Throw == [kind |-> "throw", page |-> <<>>]
NonOk == [kind |-> "nonok", page |-> <<>>]
OkPage(page) == [kind |-> "ok", page |-> page]

Dmy(day, month, year) ==
    [kind |-> "dmy", day |-> day, month |-> month, year |-> year, text |-> ""]
IsoText(text) == [kind |-> "iso", day |-> "", month |-> "", year |-> "", text |-> text]
NoDate == [kind |-> "none", day |-> "", month |-> "", year |-> "", text |-> ""]

HolidayPage ==
    <<NoDate, Dmy("1", "January", ""), Dmy("25", "December", ""), Dmy("1", "October", "2018")>>
OtherPage ==
    <<IsoText("2025-01-01"), Dmy("1", "january", ""), Dmy("5", "May", "")>>

\* what fetch() may do during one run, by the name of the network's condition
NetworkProfile(net) ==
    CASE net = "up" -> {OkPage(HolidayPage)}
      [] net = "other" -> {OkPage(OtherPage)}
      [] net = "empty" -> {OkPage(<<>>)}
      [] net = "down" -> {Throw}
      [] net = "refusing" -> {NonOk}
      [] OTHER -> {Throw, NonOk, OkPage(HolidayPage)}

NetworkNames == {"up", "other", "empty", "down", "refusing", "flaky"}

\* a flaky network settles after the requests of this many years
FlakyYears == 1

\* what fetch() may do for the i-th year of a run
Outcomes(net, i) ==
    IF net = "flaky" /\ i > FlakyYears THEN NetworkProfile("up") ELSE NetworkProfile(net)

\* the environment of a run: en and zh are indices into EnFiles and ZhFiles
Envs ==
    {[flag |-> f, en |-> e, zh |-> z, tzEast |-> tz, cheerio |-> c, net |-> n] :
        f \in BOOLEAN, e \in DOMAIN EnFiles, z \in DOMAIN ZhFiles, tz \in BOOLEAN,
        c \in BOOLEAN, n \in NetworkNames}

\* the environments tried: without --statutory the network and cheerio play no
\* part; with it, the time zone, cheerio and the network vary one at a time,
\* and a network that fails for the first years only goes with the English
\* feed alone
RelevantEnvs ==
    {e \in Envs :
        /\ ~e.flag => (e.cheerio /\ e.net = "up")
        /\ e.net = "flaky" => e.zh = 1
        /\ e.flag => (Cardinality({x \in {"tz", "cheerio", "net"} :
                                     \/ (x = "tz" /\ e.tzEast)
                                     \/ (x = "cheerio" /\ ~e.cheerio)
                                     \/ (x = "net" /\ e.net # "up")}) <= 1)}

FetchStart ==
    /\ pc = "start"
    /\ env \in RelevantEnvs
    /\ all = <<>>
    /\ yi = 0
    /\ lists = <<>>
    /\ statsOf = <<>>
    /\ files = <<>>
    /\ report = [rows |-> <<>>, total |-> 0, written |-> FALSE]
    /\ log = {}

(***************************************************************************)
(* main (fetch_company_holidays.mjs)                                       *)
(***************************************************************************)
RECURSIVE SortStrings(_)
\* keys.sort(): ascending by code units
SortStrings(S) ==
    IF S = {} THEN <<>>
    ELSE LET least == CHOOSE x \in S : \A z \in S : StrLeq(x, z)
         IN  <<least>> \o SortStrings(S \ {least})

RECURSIVE SelectYear(_, _)
SelectYear(list, y) ==
    IF Len(list) = 0 THEN <<>>
    ELSE (IF SubSeq(list[1].date, 1, 4) = y THEN <<list[1]>> ELSE <<>>)
            \o SelectYear(Tail(list), y)

\* byYear: h.date.slice(0,4) -> the records of that year, in the order of `all`
GroupByYear(list) ==
    [y \in {SubSeq(list[i].date, 1, 4) : i \in DOMAIN list} |-> SelectYear(list, y)]

\* Object.keys(byYear).sort()
YearsOf(byYear) == SortStrings(DOMAIN byYear)

MarkStatutory_None(list, stats) == list

MarkStatutory_DropUnmarked(list, stats) ==
    SelectSeq([i \in DOMAIN list |-> [list[i] EXCEPT !.statutory = list[i].date \in stats]],
              LAMBDA h : h.statutory)

\* list.forEach(h => { h.statutory = stats.has(h.date); })
MarkStatutory(list, stats) ==
    [i \in DOMAIN list |-> [list[i] EXCEPT !.statutory = list[i].date \in stats]]

CountWhere(list, P(_)) == Cardinality({i \in DOMAIN list : P(list[i])})

MissingZh(h) == h.name_zh = ""
MissingEn(h) == h.name_en = ""
IsStatutory(h) == h.statutory

validate_NamesSwapped(year, list) ==
    [year |-> year,
     total |-> Len(list),
     missingZh |-> CountWhere(list, MissingEn),
     missingEn |-> CountWhere(list, MissingZh),
     dupCount |-> Len(list) - Cardinality({list[i].date : i \in DOMAIN list}),
     statCount |-> CountWhere(list, IsStatutory)]

validate(year, list) ==
    [year |-> year,
     total |-> Len(list),
     missingZh |-> CountWhere(list, MissingZh),
     missingEn |-> CountWhere(list, MissingEn),
     dupCount |-> Len(list) - Cardinality({list[i].date : i \in DOMAIN list}),
     statCount |-> CountWhere(list, IsStatutory)]

RECURSIVE FlatMap(_, _)
\* years.flatMap(y => byYear[y])
FlatMap(years, byYear) ==
    IF Len(years) = 0 THEN <<>>
    ELSE byYear[years[1]] \o FlatMap(Tail(years), byYear)

YearFileName(y) == "company_holidays_" \o y \o ".json"

\* name -> contents, after writeJSON(name, data)
WriteFile(fs, name, data) ==
    [n \in (DOMAIN fs) \cup {name} |-> IF n = name THEN data ELSE fs[n]]

\* the state after get1823List has logged `warned` and returned r, or thrown
\* (r.ok FALSE)
Listed(r, warned) ==
    /\ pc' = IF r.ok THEN "loop" ELSE "failed"
    /\ all' = r.list
    /\ lists' = GroupByYear(r.list)
    /\ log' = (log \cup warned) \cup (IF r.ok THEN {} ELSE {<<"exit", 0, 0, "1">>})

\* main up to its loop: get1823List and the grouping by year; a throw of
\* get1823List rejects main, and the catch logs it and exits with code 1
MainStart ==
    /\ pc = "start"
    /\ Listed(get1823List(EnFiles[env.en], ZhFiles[env.zh], env.tzEast),
              ReadWarnings(EnFiles[env.en], ZhFiles[env.zh]))
    /\ yi' = 1
    /\ UNCHANGED <<env, statsOf, files, report, fnVars, genVars, retryVars>>

\* one pass of the loop over years, INCLUDE_STATUTORY false
MainYear ==
    /\ pc = "loop"
    /\ yi <= Len(YearsOf(lists))
    /\ ~env.flag
    /\ LET y == YearsOf(lists)[yi]
           list == SortByDate(lists[y])
           v == validate(y, list)
       IN  /\ lists' = [lists EXCEPT ![y] = list]
           /\ files' = WriteFile(files, YearFileName(y), list)
           /\ report' = [rows |-> Append(report.rows, v),
                         total |-> report.total + v.total,
                         written |-> FALSE]
    /\ yi' = yi + 1
    /\ UNCHANGED <<pc, env, all, statsOf, log, fnVars, genVars, retryVars>>

\* one pass of the loop over years, INCLUDE_STATUTORY true: fetch() does o1
\* with the year's page and, if that gives no text, o2 with the summary page
MainYearStatutory ==
    /\ pc = "loop"
    /\ yi <= Len(YearsOf(lists))
    /\ env.flag
    /\ \E o1 \in Outcomes(env.net, yi), o2 \in Outcomes(env.net, yi) :
        LET y == YearsOf(lists)[yi]
            html == fetchHtml(o1, o2)
            stats == getStatutoryDates(StrToNat(y), html, env.cheerio)
            list == SortByDate(MarkStatutory(lists[y], stats))
            v == validate(y, list)
        IN  /\ o1.kind = "ok" => o2 = o1
            /\ statsOf' = [k \in (DOMAIN statsOf) \cup {y} |->
                              IF k = y THEN stats ELSE statsOf[k]]
            /\ lists' = [lists EXCEPT ![y] = list]
            /\ files' = WriteFile(files, YearFileName(y), list)
            /\ report' = [rows |-> Append(report.rows, v),
                          total |-> report.total + v.total,
                          written |-> FALSE]
            /\ log' = (log \cup fetchHtmlLog(StrToNat(y), o1, o2))
                          \cup getStatutoryDatesLog(StrToNat(y), html, env.cheerio)
    /\ yi' = yi + 1
    /\ UNCHANGED <<pc, env, all, fnVars, genVars, retryVars>>

MainFinish_ReportNotWritten ==
    /\ pc = "loop"
    /\ yi > Len(YearsOf(lists))
    /\ files' = WriteFile(files, "company_holidays_ALL.json", FlatMap(YearsOf(lists), lists))
    /\ pc' = "done"
    /\ UNCHANGED <<env, all, yi, lists, statsOf, report, log, fnVars, genVars, retryVars>>

\* main after its loop: company_holidays_ALL.json and the report are written
MainFinish ==
    /\ pc = "loop"
    /\ yi > Len(YearsOf(lists))
    /\ files' = WriteFile(files, "company_holidays_ALL.json", FlatMap(YearsOf(lists), lists))
    /\ report' = [report EXCEPT !.written = TRUE]
    /\ pc' = "done"
    /\ UNCHANGED <<env, all, yi, lists, statsOf, log, fnVars, genVars, retryVars>>

(***************************************************************************)
(* Inputs of the pure functions                                            *)
(***************************************************************************)
YearParts == {"1999", "2017", "2024"}
MonthParts == {"00", "01", "02", "12", "13"}
DayParts == {"00", "01", "29", "30", "31", "32"}
TimeSuffixes == {"", "T00:00:00"}

ShapedDateStrings ==
    {y \o m \o d \o t : y \in YearParts, m \in MonthParts, d \in DayParts, t \in TimeSuffixes}
    \cup {y \o "-" \o m \o "-" \o d \o t :
            y \in YearParts, m \in MonthParts, d \in DayParts, t \in TimeSuffixes}

OtherDateStrings ==
    {"", "abc", "2024011", "202401011", "2024/01/01", "2024-1-1", "24-01-01",
     "2024-01-01 ", " 20240101", "2024-01-01t00", "2024-01-0a", "T20240101",
     "2024-0101", "20240101Z", "Jan 1 2024"}

DateInputs == {[kind |-> "date", s |-> x] : x \in ShapedDateStrings \cup OtherDateStrings}

MdDays == {1, 28, 29, 30, 31}
RuleBases == {"2024-03-01", "2024-12-25"}

MalformedRules ==
    {"FREQ=YEARLY;BYMONTH=XX;BYMONTHDAY=5", "FREQ=YEARLY;BYMONTH=1;BYMONTHDAY=XX",
     "FREQ=YEARLY;BYMONTH=1;BYDAY=1XX", "BYMONTH=1;BYMONTHDAY=1",
     "FREQ=DAILY;BYMONTH=1;BYMONTHDAY=1"}

OtherRules ==
    {"FREQ=YEARLY", "FREQ=YEARLY;BYMONTH=5;BYDAY=2SU", "FREQ=YEARLY;BYMONTH=5;BYDAY=-1MO",
     "FREQ=YEARLY;BYMONTH=4;BYDAY=MO,FR;BYSETPOS=-1", "FREQ=YEARLY;BYMONTH=2;BYDAY=5TH",
     "FREQ=YEARLY;BYMONTH=1,7;BYMONTHDAY=1;UNTIL=20191231T000000Z",
     "freq=YEARLY;bymonth=10;bymonthday=1,2", "FREQ=YEARLY;BYDAY=SA;BYSETPOS=1,9",
     "FREQ=YEARLY;BYMONTH=13;BYMONTHDAY=31", "FREQ=YEARLY;BYMONTHDAY=-1"}

RuleInputs ==
    {[kind |-> "rule", class |-> "md", m |-> mm, d |-> dd, rule |-> MdRule(mm, dd),
      base |-> b, tzEast |-> tz] :
        mm \in 1..12, dd \in MdDays, b \in {"2024-03-01"}, tz \in BOOLEAN}
    \cup {[kind |-> "rule", class |-> "malformed", m |-> 0, d |-> 0, rule |-> r,
           base |-> b, tzEast |-> tz] :
            r \in MalformedRules, b \in RuleBases, tz \in BOOLEAN}
    \cup {[kind |-> "rule", class |-> "other", m |-> 0, d |-> 0, rule |-> r,
           base |-> b, tzEast |-> tz] :
            r \in OtherRules, b \in RuleBases, tz \in BOOLEAN}

\* events for expandDates: a base date with a rule, RDATE and EXDATE values
EventInputs ==
    {[kind |-> "event", class |-> "malformed", base |-> "2024-03-01", tzEast |-> tz,
      item |-> [dtstart |-> Str("20240301"), summary |-> Str("Founders Day"),
                rrule |-> Str(r)]] :
        r \in MalformedRules, tz \in BOOLEAN}
    \cup {[kind |-> "event", class |-> "wellformed", base |-> "2024-03-01", tzEast |-> tz,
           item |-> [dtstart |-> Str("20240301"), summary |-> Str("Founders Day"),
                     rrule |-> Str(r)]] :
            r \in {MdRule(3, 1), MdRule(12, 25)}, tz \in BOOLEAN}
    \cup {[kind |-> "event", class |-> "nostart", base |-> "", tzEast |-> tz,
           item |-> [summary |-> Str("Founders Day"), rrule |-> Str(MdRule(3, 1)),
                     rdate |-> rd, exdate |-> Undef]] :
            rd \in {Undef, Str("20240405"), Arr(<<Str("20240405"), Str("bad")>>)},
            tz \in BOOLEAN}
    \cup {[kind |-> "event", class |-> "dates", base |-> "2024-03-01", tzEast |-> tz,
           item |-> [date |-> Str("2024-03-01"), title |-> Str("Founders Day"),
                     rdate |-> rd, exdate |-> xd]] :
            rd \in {Undef, Str("20240405"), Arr(<<Str("20240405"), Str("bad")>>),
                    Arr(<<Arr(<<Str("2024-04-05T00:00:00")>>), Str("2024-03-01")>>)},
            xd \in {Undef, Str("20240301"), Str("bad"), Arr(<<Str("20240405"), Str("")>>)},
            tz \in BOOLEAN}
    \cup {[kind |-> "event", class |-> "excluded", base |-> "2024-03-01", tzEast |-> tz,
           item |-> [dtstart |-> Str("20240301"), summary |-> Str("Founders Day"),
                     rrule |-> rr, RDATE |-> rd, EXDATE |-> xd]] :
            rr \in {Undef, Str(MdRule(4, 5))},
            rd \in {Undef, Str("20240405"), Arr(<<Str("20250405"), Str("20260606")>>)},
            xd \in {Undef, Str("20240301"), Str("20240405T000000"),
                    Arr(<<Str("2025-04-05"), Str("20260606"), Str("bad")>>)},
            tz \in BOOLEAN}

\* pairs of feeds for get1823List, by their indices in EnFiles and ZhFiles
FeedInputs ==
    {[kind |-> "feed", en |-> e, zh |-> z, tzEast |-> tz] :
        e \in DOMAIN EnFiles, z \in DOMAIN ZhFiles, tz \in BOOLEAN}

\* the largest |n| nthWeekday is asked for
MaxNth == 6

\* a leap year and a year whose February is four whole weeks
NthInputs ==
    {[kind |-> "nth", year |-> y, month |-> m, weekday |-> w, n |-> n] :
        y \in {2024, 2026}, m \in 1..12, w \in 0..6, n \in (0 - MaxNth)..MaxNth}

FnInputs == (((DateInputs \cup RuleInputs) \cup EventInputs) \cup FeedInputs) \cup NthInputs

(***************************************************************************)
(* The pure functions, applied to one input                                *)
(***************************************************************************)
FnStart ==
    /\ fn = "none"
    /\ arg \in FnInputs
    /\ res = ""

ApplyGetDate ==
    /\ fn = "none"
    /\ arg.kind = "date"
    /\ fn' = "getDate"
    /\ res' = getDate([date |-> Str(arg.s)])
    /\ UNCHANGED <<arg, fetchVars, genVars, retryVars>>

ApplyParseRuleDate ==
    /\ fn = "none"
    /\ arg.kind = "date"
    /\ fn' = "parseRuleDate"
    /\ res' = parseRuleDate(arg.s)
    /\ UNCHANGED <<arg, fetchVars, genVars, retryVars>>

ApplyExpandRRule ==
    /\ fn = "none"
    /\ arg.kind = "rule"
    /\ fn' = "expandRRule"
    /\ res' = expandRRule(arg.rule, arg.base, arg.tzEast)
    /\ UNCHANGED <<arg, fetchVars, genVars, retryVars>>

ApplyExpandDates ==
    /\ fn = "none"
    /\ arg.kind = "event"
    /\ fn' = "expandDates"
    /\ res' = [dates |-> expandDates(arg.item, arg.tzEast),
               warnings |-> expandDatesWarnings(arg.item)]
    /\ UNCHANGED <<arg, fetchVars, genVars, retryVars>>

ApplyNthWeekday ==
    /\ fn = "none"
    /\ arg.kind = "nth"
    /\ fn' = "nthWeekday"
    /\ res' = nthWeekday(arg.year, Int_(arg.month), arg.weekday, arg.n)
    /\ UNCHANGED <<arg, fetchVars, genVars, retryVars>>

ApplyGet1823List ==
    /\ fn = "none"
    /\ arg.kind = "feed"
    /\ fn' = "get1823List"
    /\ res' = get1823List(EnFiles[arg.en], ZhFiles[arg.zh], arg.tzEast)
    /\ UNCHANGED <<arg, fetchVars, genVars, retryVars>>

(***************************************************************************)
(* generate.js                                                             *)
(*                                                                         *)
(* START_YEAR and END_YEAR of generate.js have the values of the ones      *)
(* above.  A page of GovHK is [ok, rows]: ok FALSE when neither the local  *)
(* file nor the web gives text; a row is [date, name], the string parseISO *)
(* gives for the date part of the row (of any year, or "" when it finds no *)
(* date) and the name cut from the text before it.  A Labour page is       *)
(* [ok, dates], a date being what parseISO gives for one of its elements.  *)
(* A 1823 feed is [ok, list], an entry of the list being [date, name].     *)
(* A record is [date, name_en, name_zh, general, statutory], the last two  *)
(* being types.general_holiday and types.statutory_holiday; the sources    *)
(* array of a record, which no step reads, is left out.                    *)
(***************************************************************************)
LAST_GOVHK_YEAR == 2023
FIRST_1823_YEAR == 2024

RECURSIVE Squeeze(_)
\* s.replace(/[ \t]+/g, " ")
Squeeze(s) ==
    IF Len(s) < 2 THEN s
    ELSE IF Ch(s, 1) = " " /\ Ch(s, 2) = " " THEN Squeeze(SubSeq(s, 2, Len(s)))
    ELSE Ch(s, 1) \o Squeeze(SubSeq(s, 2, Len(s)))

\* normalize(s) of generate.js
NormalizeName(s) == Trim(Squeeze(s))

\* map.get(d)?.name || "" on a Map kept as the sequence of its entries
NameAt(map, d) ==
    IF \E i \in DOMAIN map : map[i].date = d
    THEN map[CHOOSE i \in DOMAIN map : map[i].date = d].name
    ELSE ""

\* map.set(entry.date, ..): a new key goes last, a known key keeps its place
MapSet(map, entry) ==
    IF \E i \in DOMAIN map : map[i].date = entry.date
    THEN [i \in DOMAIN map |-> IF map[i].date = entry.date THEN entry ELSE map[i]]
    ELSE Append(map, entry)

RECURSIVE parseGovHKRowsToMap(_)
\* the rows with an ISO-shaped date and a name of two characters or more
parseGovHKRowsToMap(rows) ==
    IF Len(rows) = 0 THEN <<>>
    ELSE IF IsIsoShape(rows[Len(rows)].date) /\ Len(rows[Len(rows)].name) >= 2
    THEN MapSet(parseGovHKRowsToMap(SubSeq(rows, 1, Len(rows) - 1)), rows[Len(rows)])
    ELSE parseGovHKRowsToMap(SubSeq(rows, 1, Len(rows) - 1))

RECURSIVE Keys(_)
Keys(map) == IF Len(map) = 0 THEN <<>> ELSE <<map[1].date>> \o Keys(Tail(map))

RECURSIVE GovRecords(_, _, _)
\* the loop of getGovHKYear over dates
GovRecords(dates, enMap, zhMap) ==
    IF Len(dates) = 0 THEN <<>>
    ELSE (IF NameAt(enMap, dates[1]) = "" /\ NameAt(zhMap, dates[1]) = "" THEN <<>>
          ELSE <<[date |-> dates[1], name_en |-> NameAt(enMap, dates[1]),
                  name_zh |-> NameAt(zhMap, dates[1]), general |-> TRUE,
                  statutory |-> FALSE]>>)
            \o GovRecords(Tail(dates), enMap, zhMap)

GovMaps(enMap, zhMap) ==
    SortByDate(GovRecords(SetAddAll(SetAddAll(<<>>, Keys(enMap)), Keys(zhMap)), enMap, zhMap))

\* getGovHKYear(year) given the year's English and Chinese pages
getGovHKYear(en, tc) ==
    IF ~en.ok /\ ~tc.ok THEN <<>>
    ELSE GovMaps(IF en.ok THEN parseGovHKRowsToMap(en.rows) ELSE <<>>,
                 IF tc.ok THEN parseGovHKRowsToMap(tc.rows) ELSE <<>>)

\* console.warn(`GovHK ${year} EN/TC both unavailable, skip this year.`)
getGovHKYearLog(year, en, tc) ==
    IF ~en.ok /\ ~tc.ok THEN {<<"GovHK unavailable, skip this year", year>>} ELSE {}

RECURSIVE IsoShaped(_)
IsoShaped(dates) ==
    IF Len(dates) = 0 THEN <<>>
    ELSE (IF IsIsoShape(dates[1]) THEN <<dates[1]>> ELSE <<>>) \o IsoShaped(Tail(dates))

\* getStatutoryDates(year) of generate.js given the year's Labour page: a Set
\* in insertion order
LabourDates(page) ==
    IF ~page.ok THEN <<>> ELSE SetAddAll(<<>>, IsoShaped(page.dates))

RECURSIVE Set1823En(_, _)
\* for (const h of (en || [])) if (h?.date) map.set(h.date, {name_en, name_zh: ""})
Set1823En(map, list) ==
    IF Len(list) = 0 THEN map
    ELSE IF list[Len(list)].date = "" THEN Set1823En(map, SubSeq(list, 1, Len(list) - 1))
    ELSE MapSet(Set1823En(map, SubSeq(list, 1, Len(list) - 1)),
                [date |-> list[Len(list)].date,
                 name_en |-> NormalizeName(list[Len(list)].name), name_zh |-> ""])

NameEnAt(map, d) ==
    IF \E i \in DOMAIN map : map[i].date = d
    THEN map[CHOOSE i \in DOMAIN map : map[i].date = d].name_en
    ELSE ""

RECURSIVE Set1823Zh(_, _)
\* for (const h of (zh || [])) if (h?.date) map.set(h.date, {...prev, name_zh})
Set1823Zh(map, list) ==
    IF Len(list) = 0 THEN map
    ELSE IF list[Len(list)].date = "" THEN Set1823Zh(map, SubSeq(list, 1, Len(list) - 1))
    ELSE MapSet(Set1823Zh(map, SubSeq(list, 1, Len(list) - 1)),
                [date |-> list[Len(list)].date,
                 name_en |-> NameEnAt(Set1823Zh(map, SubSeq(list, 1, Len(list) - 1)),
                                      list[Len(list)].date),
                 name_zh |-> NormalizeName(list[Len(list)].name)])

RECURSIVE AsGeneral(_)
AsGeneral(map) ==
    IF Len(map) = 0 THEN <<>>
    ELSE <<[date |-> map[1].date, name_en |-> map[1].name_en, name_zh |-> map[1].name_zh,
            general |-> TRUE, statutory |-> FALSE]>> \o AsGeneral(Tail(map))

\* get1823All() given the English and the Chinese feed
get1823All(en, zh) ==
    IF (~en.ok \/ Len(en.list) = 0) /\ (~zh.ok \/ Len(zh.list) = 0) THEN <<>>
    ELSE SortByDate(AsGeneral(Set1823Zh(Set1823En(<<>>, IF en.ok THEN en.list ELSE <<>>),
                                        IF zh.ok THEN zh.list ELSE <<>>)))

\* console.warn("1823 not available (local nor remote). Skipping 2024-2026.")
get1823AllLog(en, zh) ==
    IF (~en.ok \/ Len(en.list) = 0) /\ (~zh.ok \/ Len(zh.list) = 0)
    THEN {<<"1823 not available, skipping", FIRST_1823_YEAR>>}
    ELSE {}

RECURSIVE WithDate(_, _)
WithDate(list, d) ==
    IF Len(list) = 0 THEN <<>>
    ELSE (IF list[1].date = d THEN <<list[1]>> ELSE <<>>) \o WithDate(Tail(list), d)

RECURSIVE Grouped(_, _)
\* Object.keys(byDate).forEach(d => byDate[d].forEach(..)): the items of list,
\* date by date in the order the dates first appear
Grouped(dates, list) ==
    IF Len(dates) = 0 THEN <<>>
    ELSE WithDate(list, dates[1]) \o Grouped(Tail(dates), list)

MarkAll(list, statutoryDates) ==
    [i \in DOMAIN list |->
        [list[i] EXCEPT !.general = TRUE, !.statutory = list[i].date \in Range(statutoryDates)]]

RECURSIVE StatutoryOnly(_, _)
\* statutoryDates.forEach(d => { if (!byDate[d]) out.push(..) })
StatutoryOnly(statutoryDates, list) ==
    IF Len(statutoryDates) = 0 THEN <<>>
    ELSE (IF \E i \in DOMAIN list : list[i].date = statutoryDates[1] THEN <<>>
          ELSE <<[date |-> statutoryDates[1], name_en |-> "", name_zh |-> "",
                  general |-> FALSE, statutory |-> TRUE]>>)
            \o StatutoryOnly(Tail(statutoryDates), list)

mergeAndMark(generalList, statutoryDates) ==
    SortByDate(MarkAll(Grouped(SetAddAll(<<>>, Keys(generalList)), generalList),
                       statutoryDates)
               \o StatutoryOnly(statutoryDates, generalList))

\* h.date.startsWith(String(y))
StartsWithYear(h, y) == Len(h.date) >= 4 /\ SubSeq(h.date, 1, 4) = NatToStr(y)

RECURSIVE FilterYear(_, _)
FilterYear(list, y) ==
    IF Len(list) = 0 THEN <<>>
    ELSE (IF StartsWithYear(list[1], y) THEN <<list[1]>> ELSE <<>>)
            \o FilterYear(Tail(list), y)

NameZhAt(list, d) ==
    IF \E i \in DOMAIN list : list[i].date = d
    THEN list[CHOOSE j \in DOMAIN list :
                /\ list[j].date = d
                /\ \A k \in DOMAIN list : list[k].date = d => k <= j].name_zh
    ELSE ""

\* gen.forEach(h => { if (!h.name_zh && zhMap.get(h.date)) h.name_zh = .. })
FillZh(list, govList) ==
    [i \in DOMAIN list |->
        IF list[i].name_zh = "" /\ NameZhAt(govList, list[i].date) # ""
        THEN [list[i] EXCEPT !.name_zh = NameZhAt(govList, list[i].date)]
        ELSE list[i]]

\* the records of gen1823 the pass of year y has filled in
FillYear(list, y, govList) ==
    [i \in DOMAIN list |->
        IF StartsWithYear(list[i], y) THEN FillZh(<<list[i]>>, govList)[1] ELSE list[i]]

DedupKey(h) == <<h.date, h.name_en, h.name_zh, h.general, h.statutory>>

RECURSIVE Dedup(_)
\* all.filter(h => { if (seen.has(k)) return false; seen.add(k); return true; })
Dedup(list) ==
    IF Len(list) = 0 THEN <<>>
    ELSE IF \E i \in 1..(Len(list) - 1) : DedupKey(list[i]) = DedupKey(list[Len(list)])
    THEN Dedup(SubSeq(list, 1, Len(list) - 1))
    ELSE Append(Dedup(SubSeq(list, 1, Len(list) - 1)), list[Len(list)])

(***************************************************************************)
(* Where generate.js takes its inputs from                                 *)
(*                                                                         *)
(* A value is [t, list]: null, a text (empty or not; `list` holds the      *)
(* VEVENTs of an ICS text as [date, title], date "" when DTSTART carries   *)
(* no eight digits), a JSON array of entries [date, title], or another     *)
(* JSON object.  A local file is [state, value]: absent, present but       *)
(* unreadable (the read throws), present but not JSON, or present with the *)
(* value its content gives.  What fetchSafe returns for a URL is a value:  *)
(* the empty value after its last failed attempt.  The trace of a source   *)
(* holds "local:<file>" for every local file read and "web:<url>" for      *)
(* every call of fetchSafe, in order.                                      *)
(***************************************************************************)
GNull == [t |-> "null", list |-> <<>>]
GEmptyText == [t |-> "emptytext", list |-> <<>>]
GText(events) == [t |-> "text", list |-> events]
GArr(entries) == [t |-> "arr", list |-> entries]
GObj == [t |-> "obj", list |-> <<>>]

GTruthy(v) == v.t \in {"text", "arr", "obj"}

Absent == [state |-> "absent", value |-> GNull]
Unreadable == [state |-> "unreadable", value |-> GNull]
NotJson == [state |-> "badjson", value |-> GNull]
FileOf(v) == [state |-> "ok", value |-> v]

existsSync(f) == f.state # "absent"

\* readIfExists(p, mode): the content (parsed, for mode "json"), null when the
\* file is absent or the read or the parse throws
readIfExists(f) == IF f.state = "ok" THEN f.value ELSE GNull

RECURSIVE Dated(_)
\* the entries that have a date
Dated(list) ==
    IF Len(list) = 0 THEN <<>>
    ELSE (IF list[1].date # "" THEN <<list[1]>> ELSE <<>>) \o Dated(Tail(list))

\* x[k]; "" stands for a field the entry does not have
Field(x, k) == IF k \in DOMAIN x THEN x[k] ELSE ""

\* a || b on strings
OrStr(a, b) == IF a # "" THEN a ELSE b

RECURSIVE IcsEvents(_)
\* out.push({ date: current.date, title: normalize(current.title || "") })
IcsEvents(list) ==
    IF Len(list) = 0 THEN <<>>
    ELSE <<[date |-> list[1].date, title |-> NormalizeName(Field(list[1], "title"))]>>
            \o IcsEvents(Tail(list))

\* parseICS(text): the VEVENTs that have a date
parseICS(text) == IcsEvents(Dated(text.list))

RECURSIVE IcsToEn(_)
\* .map(x => ({ date:x.date, name_en:x.title, name_zh:"" }))
IcsToEn(list) ==
    IF Len(list) = 0 THEN <<>>
    ELSE <<[date |-> list[1].date, name_en |-> list[1].title, name_zh |-> ""]>>
            \o IcsToEn(Tail(list))

RECURSIVE JsonToEn(_)
\* .map(x => ({ date: x.date, name_en: normalize(x.title || x.summary || x.name || ""),
\*              name_zh: "" }))
JsonToEn(list) ==
    IF Len(list) = 0 THEN <<>>
    ELSE <<[date |-> list[1].date,
            name_en |-> NormalizeName(OrStr(OrStr(Field(list[1], "title"),
                                                  Field(list[1], "summary")),
                                            Field(list[1], "name"))),
            name_zh |-> ""]>> \o JsonToEn(Tail(list))

\* parse1823Json(arr)
parse1823Json(v) == IF v.t # "arr" THEN <<>> ELSE JsonToEn(Dated(v.list))

LocalOrWeb_WebFirst(local, web) ==
    IF GTruthy(web)
    THEN [value |-> web, from |-> "web", threw |-> FALSE, trace |-> <<"web:page">>]
    ELSE [value |-> readIfExists(local),
          from |-> IF GTruthy(readIfExists(local)) THEN "local" ELSE "none",
          threw |-> FALSE,
          trace |-> <<"web:page">> \o (IF existsSync(local) THEN <<"local:page">> ELSE <<>>)]

\* readIfExists(local, "text") || await fetchSafe(url, "text", 3, 15000)
LocalOrWeb(local, web) ==
    IF GTruthy(readIfExists(local))
    THEN [value |-> readIfExists(local), from |-> "local", threw |-> FALSE,
          trace |-> <<"local:page">>]
    ELSE [value |-> web, from |-> IF GTruthy(web) THEN "web" ELSE "none", threw |-> FALSE,
          trace |-> (IF existsSync(local) THEN <<"local:page">> ELSE <<>>) \o <<"web:page">>]

Traced(got, event) == [got EXCEPT !.trace = Append(got.trace, event)]

\* get1823All, lines 224-225: the local JSON, else the local ICS if it exists;
\* parseICS(null) throws when that file cannot be read
LocalEn(lj, li) ==
    IF GTruthy(readIfExists(lj))
    THEN [value |-> readIfExists(lj), from |-> "local json", threw |-> FALSE,
          trace |-> <<"local:1823_en.json">>]
    ELSE IF existsSync(li)
    THEN [value |-> IF li.state = "ok" THEN GArr(IcsToEn(parseICS(li.value))) ELSE GNull,
          from |-> IF li.state = "ok" THEN "local ics" ELSE "none",
          threw |-> li.state # "ok",
          trace |-> (IF existsSync(lj) THEN <<"local:1823_en.json">> ELSE <<>>)
                        \o <<"local:1823_en.ics">>]
    ELSE [value |-> GNull, from |-> "none", threw |-> FALSE,
          trace |-> IF existsSync(lj) THEN <<"local:1823_en.json">> ELSE <<>>]

\* get1823All, lines 226-233: the remote JSON, else the remote ICS
RemoteEn(got, rj, ri) ==
    IF got.threw \/ GTruthy(got.value) THEN got
    ELSE IF Len(parse1823Json(rj)) # 0
    THEN [value |-> GArr(parse1823Json(rj)), from |-> "remote json", threw |-> FALSE,
          trace |-> Append(got.trace, "web:en.json")]
    ELSE [value |-> IF GTruthy(ri) THEN GArr(IcsToEn(parseICS(ri))) ELSE GArr(<<>>),
          from |-> IF GTruthy(ri) THEN "remote ics" ELSE "none", threw |-> FALSE,
          trace |-> got.trace \o <<"web:en.json", "web:en.ics">>]

\* the English feed of get1823All
AcquireEn(lj, li, rj, ri) == RemoteEn(LocalEn(lj, li), rj, ri)

RECURSIVE En1823Map(_, _)
\* for (const h of (en || [])) if (h?.date)
\*     map.set(h.date, { name_en: normalize(h.name_en || ""), name_zh: "" })
En1823Map(map, list) ==
    IF Len(list) = 0 THEN map
    ELSE IF list[Len(list)].date = "" THEN En1823Map(map, SubSeq(list, 1, Len(list) - 1))
    ELSE MapSet(En1823Map(map, SubSeq(list, 1, Len(list) - 1)),
                [date |-> list[Len(list)].date,
                 name_en |-> NormalizeName(Field(list[Len(list)], "name_en")),
                 name_zh |-> ""])

\* what get1823All returns when no Chinese feed is to be had (zh is null): the
\* empty list when the English feed is null, is no array or is empty
EnRecords(got) ==
    IF got.threw \/ got.value.t # "arr" \/ Len(got.value.list) = 0 THEN <<>>
    ELSE SortByDate(AsGeneral(En1823Map(<<>>, got.value.list)))

EnResult(got) == [from |-> got.from, threw |-> got.threw, records |-> EnRecords(got)]

Nothing == [value |-> GNull, from |-> "none", threw |-> FALSE, trace |-> <<>>]

RECURSIVE LocalJsonTc(_, _, _)
\* for (const p of localJsonTC) { zh = zh || readIfExists(p, "json"); }
LocalJsonTc(got, paths, names) ==
    IF Len(paths) = 0 THEN got
    ELSE IF GTruthy(got.value) THEN LocalJsonTc(got, Tail(paths), Tail(names))
    ELSE LocalJsonTc([value |-> readIfExists(paths[1]),
                      from |-> IF GTruthy(readIfExists(paths[1])) THEN "local json"
                               ELSE "none",
                      threw |-> FALSE,
                      trace |-> got.trace \o (IF existsSync(paths[1]) THEN <<names[1]>>
                                              ELSE <<>>)],
                     Tail(paths), Tail(names))

RECURSIVE LocalIcsTc(_, _, _)
\* for (const p of localIcsTC) { if (fs.existsSync(p)) { zh = parseICS(..); break; } }
LocalIcsTc(got, paths, names) ==
    IF Len(paths) = 0 \/ GTruthy(got.value) THEN got
    ELSE IF existsSync(paths[1])
    THEN [value |-> IF paths[1].state = "ok" THEN GArr(parseICS(paths[1].value)) ELSE GNull,
          from |-> IF paths[1].state = "ok" THEN "local ics" ELSE "none",
          threw |-> paths[1].state # "ok",
          trace |-> Append(got.trace, names[1])]
    ELSE LocalIcsTc(got, Tail(paths), Tail(names))

RECURSIVE RemoteJsonTc(_, _, _)
\* for (const u of DPO_1823_TC_JSON) { data = await fetchSafe(u, "json", ..); .. }
RemoteJsonTc(got, answers, names) ==
    IF Len(answers) = 0 \/ got.threw \/ GTruthy(got.value) THEN got
    ELSE IF answers[1].t = "arr" /\ Len(answers[1].list) # 0
    THEN [value |-> answers[1], from |-> "remote json", threw |-> FALSE,
          trace |-> Append(got.trace, names[1])]
    ELSE RemoteJsonTc(Traced(got, names[1]), Tail(answers), Tail(names))

RECURSIVE RemoteIcsTc(_, _, _)
\* for (const u of DPO_1823_TC_ICS) { ics = await fetchSafe(u, "text", ..); .. }
RemoteIcsTc(got, answers, names) ==
    IF Len(answers) = 0 \/ got.threw \/ GTruthy(got.value) THEN got
    ELSE IF GTruthy(answers[1])
    THEN [value |-> GArr(parseICS(answers[1])), from |-> "remote ics", threw |-> FALSE,
          trace |-> Append(got.trace, names[1])]
    ELSE RemoteIcsTc(Traced(got, names[1]), Tail(answers), Tail(names))

\* the Chinese feed of get1823All
AcquireTc(lj, li, rj, ri) ==
    RemoteIcsTc(
        RemoteJsonTc(
            LocalIcsTc(LocalJsonTc(Nothing, lj, <<"local:1823_tc.json", "local:1823_zh.json">>),
                       li, <<"local:1823_tc.ics", "local:1823_zh.ics">>),
            rj, <<"web:tc.json", "web:zh.json">>),
        ri, <<"web:tc.ics", "web:zh.ics">>)

(***************************************************************************)
(* Inputs of generate.js                                                   *)
(***************************************************************************)
\* years of a run whose pages are available; the pages of the others are not
PagesBudget == 2

Jan1(y) == NatToStr(y) \o "-01-01"
Xmas(y) == NatToStr(y) \o "-12-25"

NoPage == [ok |-> FALSE, rows |-> <<>>]
Page(rows) == [ok |-> TRUE, rows |-> rows]
Row(date, name) == [date |-> date, name |-> name]
NoLabour == [ok |-> FALSE, dates |-> <<>>]
Labour(dates) == [ok |-> TRUE, dates |-> dates]

Unavailable == [en |-> NoPage, tc |-> NoPage, labour |-> NoLabour]

\* what the pages of year y may hold: both languages and a statutory mark; a
\* page that also lists 1 January of the next year; a statutory date GovHK
\* does not list; a Chinese page alone, with a row without a date; the Labour
\* page alone
AvailableInputs(y) ==
    {[en |-> Page(<<Row(Jan1(y), "New Year")>>), tc |-> Page(<<Row(Jan1(y), "Yuandan")>>),
      labour |-> Labour(<<Jan1(y)>>)],
     [en |-> Page(<<Row(Xmas(y), "Christmas Day"), Row(Jan1(y + 1), "New Year")>>),
      tc |-> NoPage, labour |-> NoLabour],
     [en |-> Page(<<Row(Jan1(y), "New Year"), Row(Jan1(y), "The first day of January")>>),
      tc |-> NoPage, labour |-> Labour(<<Xmas(y), "", Xmas(y)>>)],
     [en |-> NoPage, tc |-> Page(<<Row("", "Remarks"), Row(Jan1(y), "Yuandan")>>),
      labour |-> Labour(<<Jan1(y)>>)],
     [en |-> NoPage, tc |-> NoPage, labour |-> Labour(<<Jan1(y)>>)]}

YearInputs(y, budget) ==
    IF budget > 0 THEN {Unavailable} \cup AvailableInputs(y) ELSE {Unavailable}

Spent(inp) == IF inp = Unavailable THEN 0 ELSE 1

NoFeed == [ok |-> FALSE, list |-> <<>>]
Feed(list) == [ok |-> TRUE, list |-> list]

Feeds1823 ==
    {[en |-> NoFeed, zh |-> NoFeed],
     [en |-> Feed(<<Row("2024-01-01", " New  Year "), Row("", "Undated")>>),
      zh |-> Feed(<<Row("2024-01-01", "Yuandan")>>)],
     [en |-> Feed(<<Row("2025-01-01", "New Year"), Row("2024-01-01", "New Year"),
                    Row("2024-01-01", "The first day of January")>>),
      zh |-> NoFeed],
     [en |-> Feed(<<>>), zh |-> Feed(<<Row("2026-01-01", "Yuandan")>>)]}

(***************************************************************************)
(* The main function of generate.js                                        *)
(***************************************************************************)
GenStart ==
    /\ gpc = "govhk"
    /\ gy = START_YEAR
    /\ gen1823 = <<>>
    /\ gall = <<>>
    /\ gout = <<>>
    /\ gbudget = PagesBudget
    /\ glog = {}

\* one pass of the loop over 2017-2023
GenGovHKYear ==
    /\ gpc = "govhk"
    /\ \E inp \in YearInputs(gy, gbudget) :
          /\ gall' = gall \o mergeAndMark(getGovHKYear(inp.en, inp.tc), LabourDates(inp.labour))
          /\ glog' = glog \cup getGovHKYearLog(gy, inp.en, inp.tc)
          /\ gbudget' = gbudget - Spent(inp)
    /\ gy' = gy + 1
    /\ gpc' = IF gy + 1 <= LAST_GOVHK_YEAR /\ gy + 1 <= END_YEAR THEN "govhk"
              ELSE IF END_YEAR >= FIRST_1823_YEAR THEN "load1823" ELSE "dedup"
    /\ UNCHANGED <<gen1823, gout, fnVars, fetchVars, retryVars>>

\* const gen1823 = await get1823All()
GenLoad1823 ==
    /\ gpc = "load1823"
    /\ \E feed \in Feeds1823 :
          /\ gen1823' = get1823All(feed.en, feed.zh)
          /\ glog' = glog \cup get1823AllLog(feed.en, feed.zh)
    /\ gy' = FIRST_1823_YEAR
    /\ gpc' = "y1823"
    /\ UNCHANGED <<gall, gout, gbudget, fnVars, fetchVars, retryVars>>

\* one pass of the loop over 2024-2026
GenYear1823 ==
    /\ gpc = "y1823"
    /\ \E inp \in YearInputs(gy, gbudget) :
          /\ gen1823' = FillYear(gen1823, gy, getGovHKYear(inp.en, inp.tc))
          /\ gall' = gall \o mergeAndMark(FillZh(FilterYear(gen1823, gy),
                                                 getGovHKYear(inp.en, inp.tc)),
                                          LabourDates(inp.labour))
          /\ glog' = glog \cup getGovHKYearLog(gy, inp.en, inp.tc)
          /\ gbudget' = gbudget - Spent(inp)
    /\ gy' = gy + 1
    /\ gpc' = IF gy + 1 <= END_YEAR THEN "y1823" ELSE "dedup"
    /\ UNCHANGED <<gout, fnVars, fetchVars, retryVars>>

\* the de-dup filter and the write of hk_holidays_2017_2026.json
GenDedup ==
    /\ gpc = "dedup"
    /\ gout' = Dedup(gall)
    /\ gpc' = "done"
    /\ UNCHANGED <<gy, gen1823, gall, gbudget, glog, fnVars, fetchVars, retryVars>>

(***************************************************************************)
(* The sources of generate.js, each on one state of the files and the web  *)
(***************************************************************************)
Entry(date, title) == [date |-> date, title |-> title]

NewYearEntry == Entry("2024-01-01", "New Year")
SummaryEntry == [date |-> "2025-01-01", summary |-> " New  Year "]
NamedEntry == [date |-> "2026-01-01", name_en |-> "New Year"]
UndatedEntry == Entry("", "Remarks")

PageFiles == {Absent, Unreadable, FileOf(GEmptyText), FileOf(GText(<<>>))}
PageAnswers == {GEmptyText, GText(<<>>)}

JsonFiles ==
    {Absent, NotJson, FileOf(GNull), FileOf(GArr(<<>>)), FileOf(GArr(<<NewYearEntry>>)),
     FileOf(GArr(<<NamedEntry, SummaryEntry, UndatedEntry>>)), FileOf(GObj)}
IcsFiles ==
    {Absent, Unreadable, FileOf(GEmptyText), FileOf(GText(<<NewYearEntry, UndatedEntry>>))}
JsonAnswers ==
    {GNull, GObj, GArr(<<>>), GArr(<<UndatedEntry>>), GArr(<<NewYearEntry>>),
     GArr(<<NamedEntry, SummaryEntry, UndatedEntry>>)}
IcsAnswers == {GEmptyText, GText(<<>>), GText(<<NewYearEntry>>)}

SrcInputs ==
    {[kind |-> "page", local |-> l, web |-> w] : l \in PageFiles, w \in PageAnswers}
    \cup {[kind |-> "en", lj |-> a, li |-> b, rj |-> c, ri |-> d] :
            a \in JsonFiles, b \in IcsFiles, c \in JsonAnswers, d \in IcsAnswers}
    \cup {[kind |-> "tc", lj |-> <<a1, a2>>, li |-> <<b1, b2>>, rj |-> <<c1, c2>>,
           ri |-> <<d1, d2>>] :
            a1 \in {Absent, NotJson, FileOf(GArr(<<>>)), FileOf(GArr(<<NewYearEntry>>))},
            a2 \in {Absent, FileOf(GArr(<<NewYearEntry>>))},
            b1 \in {Absent, Unreadable, FileOf(GText(<<NewYearEntry>>))},
            b2 \in {Absent, FileOf(GText(<<NewYearEntry>>))},
            c1 \in {GNull, GArr(<<>>), GArr(<<NewYearEntry>>)},
            c2 \in {GNull, GArr(<<NewYearEntry>>)},
            d1 \in {GEmptyText, GText(<<NewYearEntry>>)},
            d2 \in {GEmptyText, GText(<<NewYearEntry>>)}}

SrcStart ==
    /\ fn = "none"
    /\ arg \in SrcInputs
    /\ res = ""

\* a GovHK or Labour page: lines 188, 189 and 271
ApplyLocalOrWeb ==
    /\ fn = "none"
    /\ arg.kind = "page"
    /\ fn' = "LocalOrWeb"
    /\ res' = LocalOrWeb(arg.local, arg.web)
    /\ UNCHANGED <<arg, fetchVars, genVars, retryVars>>

ApplyAcquireEn ==
    /\ fn = "none"
    /\ arg.kind = "en"
    /\ fn' = "AcquireEn"
    /\ res' = AcquireEn(arg.lj, arg.li, arg.rj, arg.ri)
    /\ UNCHANGED <<arg, fetchVars, genVars, retryVars>>

\* the records of get1823All with no Chinese feed
ApplyEnRecords ==
    /\ fn = "none"
    /\ arg.kind = "en"
    /\ fn' = "get1823All"
    /\ res' = EnResult(AcquireEn(arg.lj, arg.li, arg.rj, arg.ri))
    /\ UNCHANGED <<arg, fetchVars, genVars, retryVars>>

ApplyAcquireTc ==
    /\ fn = "none"
    /\ arg.kind = "tc"
    /\ fn' = "AcquireTc"
    /\ res' = AcquireTc(arg.lj, arg.li, arg.rj, arg.ri)
    /\ UNCHANGED <<arg, fetchVars, genVars, retryVars>>

(***************************************************************************)
(* fetchSafe (generate.js)                                                 *)
(*                                                                         *)
(* A call is [type, tries, net]: net[n] is what the n-th request does:     *)
(* "ok" (res.ok, and the body is read), "nonok" (a response with res.ok    *)
(* false, turned into a throw), "throw" (fetch rejects), "timeout" (the    *)
(* abort of the timer), "badbody" (res.json() or res.text() rejects).      *)
(* rlog holds <<"fetch", n, 0>>, <<"warn", n, 0>> and <<"sleep", n, ms>>.  *)
(***************************************************************************)
\* the largest `tries` of a call
MaxTries == 3

\* sleep(500 * attempt + Math.random() * 300)
BASE_DELAY_MS == 500
JITTER_MS == 300

\* values of Math.random() * JITTER_MS, a number of [0, JITTER_MS)
Jitters == {0, JITTER_MS \div 2, JITTER_MS - 1}

FetchOutcomes == {"ok", "nonok", "throw", "timeout", "badbody"}

RetryCalls ==
    {[type |-> t, tries |-> n, net |-> o] :
        t \in {"text", "json"}, n \in 0..MaxTries, o \in [1..MaxTries -> FetchOutcomes]}

\* type === "json" ? null : ""
EmptyValue(type) == [kind |-> IF type = "json" THEN "null" ELSE "emptytext", attempt |-> 0]

\* the body the n-th response carries
BodyOf(n) == [kind |-> "body", attempt |-> n]

RetryStart ==
    /\ rpc = "loop"
    /\ rcall \in RetryCalls
    /\ attempt = 1
    /\ rlog = <<>>
    /\ rret = [kind |-> "none", attempt |-> 0]

\* one pass of the loop up to its return or its await of sleep, but for the
\* line that tells the last attempt from the others
RetryAttempt_AlwaysSleeps ==
    /\ rpc = "loop"
    /\ attempt <= rcall.tries
    /\ IF rcall.net[attempt] = "ok"
       THEN /\ rlog' = Append(rlog, <<"fetch", attempt, 0>>)
            /\ rret' = BodyOf(attempt)
            /\ rpc' = "returned"
       ELSE /\ rlog' = rlog \o << <<"fetch", attempt, 0>>, <<"warn", attempt, 0>> >>
            /\ rpc' = "sleep"
            /\ UNCHANGED rret
    /\ UNCHANGED <<rcall, attempt, fnVars, fetchVars, genVars>>

\* one pass of the loop up to its return or its await of sleep: the request,
\* and after a failure the warning and the choice between returning the empty
\* value (last attempt) and sleeping
RetryAttempt ==
    /\ rpc = "loop"
    /\ attempt <= rcall.tries
    /\ IF rcall.net[attempt] = "ok"
       THEN /\ rlog' = Append(rlog, <<"fetch", attempt, 0>>)
            /\ rret' = BodyOf(attempt)
            /\ rpc' = "returned"
       ELSE /\ rlog' = rlog \o << <<"fetch", attempt, 0>>, <<"warn", attempt, 0>> >>
            /\ IF attempt = rcall.tries
               THEN rret' = EmptyValue(rcall.type) /\ rpc' = "returned"
               ELSE rpc' = "sleep" /\ UNCHANGED rret
    /\ UNCHANGED <<rcall, attempt, fnVars, fetchVars, genVars>>

\* await sleep(500 * attempt + Math.random() * 300), then attempt++
RetrySleep ==
    /\ rpc = "sleep"
    /\ \E j \in Jitters :
          rlog' = Append(rlog, <<"sleep", attempt, BASE_DELAY_MS * attempt + j>>)
    /\ attempt' = attempt + 1
    /\ rpc' = "loop"
    /\ UNCHANGED <<rcall, rret, fnVars, fetchVars, genVars>>

\* the return after the loop, reached when the loop's condition fails
RetryExhausted ==
    /\ rpc = "loop"
    /\ attempt > rcall.tries
    /\ rret' = EmptyValue(rcall.type)
    /\ rpc' = "returned"
    /\ UNCHANGED <<rcall, attempt, rlog, fnVars, fetchVars, genVars>>

(***************************************************************************)
(* Specifications                                                          *)
(***************************************************************************)
\* the variables of a program that is not running
FnIdle == fn = "none" /\ arg = [kind |-> "none"] /\ res = ""
FetchIdle ==
    /\ pc = "idle"
    /\ env = <<>>
    /\ all = <<>>
    /\ yi = 0
    /\ lists = <<>>
    /\ statsOf = <<>>
    /\ files = <<>>
    /\ report = <<>>
    /\ log = {}
GenIdle ==
    /\ gpc = "idle"
    /\ gy = 0
    /\ gen1823 = <<>>
    /\ gall = <<>>
    /\ gout = <<>>
    /\ gbudget = 0
    /\ glog = {}

RetryIdle ==
    /\ rpc = "idle"
    /\ rcall = <<>>
    /\ attempt = 0
    /\ rlog = <<>>
    /\ rret = [kind |-> "none", attempt |-> 0]

FnNext ==
    \/ ApplyGetDate
    \/ ApplyParseRuleDate
    \/ ApplyExpandRRule
    \/ ApplyExpandDates
    \/ ApplyGet1823List
    \/ ApplyNthWeekday

\* the pure functions on their inputs
FnInit == FnStart /\ FetchIdle /\ GenIdle /\ RetryIdle

SpecFn == FnInit /\ [][FnNext]_vars

FetchInit == FetchStart /\ FnIdle /\ GenIdle /\ RetryIdle

FetchNext ==
    \/ MainStart
    \/ MainYear
    \/ MainYearStatutory
    \/ MainFinish

\* one run of fetch_company_holidays.mjs
SpecFetch == FetchInit /\ [][FetchNext]_vars

GenInit == GenStart /\ FnIdle /\ FetchIdle /\ RetryIdle

GenNext ==
    \/ GenGovHKYear
    \/ GenLoad1823
    \/ GenYear1823
    \/ GenDedup

SpecGen == GenInit /\ [][GenNext]_vars

SrcInit == SrcStart /\ FetchIdle /\ GenIdle /\ RetryIdle

SrcNext ==
    \/ ApplyLocalOrWeb
    \/ ApplyAcquireEn
    \/ ApplyEnRecords
    \/ ApplyAcquireTc

\* one source of generate.js on one state of its files and of the web
SpecSrc == SrcInit /\ [][SrcNext]_vars

RetryInit == RetryStart /\ FnIdle /\ FetchIdle /\ GenIdle

RetryNext ==
    \/ RetryAttempt
    \/ RetrySleep
    \/ RetryExhausted

\* one call of fetchSafe
SpecRetry == RetryInit /\ [][RetryNext]_vars

(***************************************************************************)
(* Properties                                                              *)
(***************************************************************************)
RECURSIVE Pattern(_)
\* s with every digit replaced by "d"
Pattern(s) ==
    IF Len(s) = 0 THEN ""
    ELSE (IF Ch(s, 1) \in Digits THEN "d" ELSE Ch(s, 1)) \o Pattern(SubSeq(s, 2, Len(s)))

RECURSIVE DigitsOnly(_)
\* the digits of s, in order
DigitsOnly(s) ==
    IF Len(s) = 0 THEN ""
    ELSE (IF Ch(s, 1) \in Digits THEN Ch(s, 1) ELSE "") \o DigitsOnly(SubSeq(s, 2, Len(s)))

\* the longest prefix of s that holds no "T"
UpToT(s) ==
    SubSeq(s, 1, CHOOSE n \in 0..Len(s) :
                    /\ \A i \in 1..n : Ch(s, i) # "T"
                    /\ (n = Len(s) \/ Ch(s, n + 1) = "T"))

RealDate(y, m, d) == m \in 1..12 /\ d >= 1 /\ d <= MonthLength(y, m)

\* an 8-digit or ISO string that names a day of the calendar
ValidDateString(s) ==
    /\ Pattern(s) \in {"dddddddd", "dddd-dd-dd"}
    /\ RealDate(StrToNat(SubSeq(DigitsOnly(s), 1, 4)), StrToNat(SubSeq(DigitsOnly(s), 5, 6)),
                StrToNat(SubSeq(DigitsOnly(s), 7, 8)))

NormalizerApplied == fn \in {"getDate", "parseRuleDate"}

\* C3 (as claimed): the date normalizer returns YYYY-MM-DD for every valid
\* 8-digit or ISO date string and the empty string for every other string.  A
\* valid date followed by a time part ("T" and what follows it) is read here
\* as a valid date string, so that only a string that names no day of the
\* calendar can tell the code from the claim.
C3_AsClaimed ==
    NormalizerApplied =>
        IF ValidDateString(UpToT(arg.s))
        THEN Pattern(res) = "dddd-dd-dd" /\ DigitsOnly(res) = DigitsOnly(UpToT(arg.s))
        ELSE res = ""

\* C3 (what the code does): the date normalizer looks at the shape only.  For
\* every string that, once everything from its first "T" on is dropped, is
\* eight digits or has the form dddd-dd-dd, it returns those eight digits as
\* dddd-dd-dd, whether or not they name a day of the calendar; for every other
\* string it returns the empty string.
C3_NormalizerByShape ==
    NormalizerApplied =>
        IF Pattern(UpToT(arg.s)) \in {"dddddddd", "dddd-dd-dd"}
        THEN Pattern(res) = "dddd-dd-dd" /\ DigitsOnly(res) = DigitsOnly(UpToT(arg.s))
        ELSE res = ""

\* C3 witness: a string of eight digits that names no day of the calendar
\* (month 13, day 32), followed by a time part, has been normalized to a date
\* instead of the empty string
C3_Witness ==
    /\ NormalizerApplied
    /\ arg.s = "20241332T00:00:00"
    /\ res = "2024-13-32"

YearOf(date) == StrToNat(SubSeq(date, 1, 4))

TwoDigits(n) == IF n < 10 THEN "0" \o NatToStr(n) ELSE NatToStr(n)

DateStr(y, m, d) == NatToStr(y) \o "-" \o TwoDigits(m) \o "-" \o TwoDigits(d)

YearsInRange == START_YEAR..END_YEAR

FixedMonthDayExpanded == fn = "expandRRule" /\ arg.class = "md"

\* C4 (as claimed): for a yearly rule with a fixed month and day expandRRule
\* returns exactly ten dates, one in each year from 2017 to 2026.
C4_AsClaimed ==
    FixedMonthDayExpanded =>
        /\ Len(res) = 10
        /\ \A y \in YearsInRange :
              Cardinality({i \in DOMAIN res : YearOf(res[i]) = y}) = 1

\* C4 (amended): for a yearly rule with a fixed month m (1..12) and day d
\* (1..31) and no UNTIL, expandRRule returns, in ascending order and without
\* repetition, the date y-m-d of exactly those years y of 2017..2026 whose month
\* m has a day d: ten dates when the day exists every year, only the leap years
\* for 29 February, none for a day the month never has.
C4_OnePerYearThatHasTheDay ==
    FixedMonthDayExpanded =>
        /\ Range(res) = {DateStr(y, arg.m, arg.d) :
                            y \in {x \in YearsInRange : arg.d <= MonthLength(x, arg.m)}}
        /\ \A i, j \in DOMAIN res : i < j => YearOf(res[i]) < YearOf(res[j])

\* C4 witness: the rule for 29 February has been expanded to the two leap years
C4_Witness ==
    /\ FixedMonthDayExpanded
    /\ arg.m = 2
    /\ arg.d = 29
    /\ res = <<"2020-02-29", "2024-02-29">>

\* C9 (as claimed): a malformed recurrence rule is skipped with a warning; the
\* event's expansion is its base date alone.
C9_AsClaimed ==
    (fn = "expandDates" /\ arg.class = "malformed") =>
        /\ res.dates = <<arg.base>>
        /\ res.warnings # {}

\* C9 witness: a rule with a non-numeric BYMONTH has added a date that is no
\* date to the expansion of its event, and no warning was logged
C9_NaNDatesAdded ==
    /\ fn = "expandDates"
    /\ arg.class = "malformed"
    /\ "2017-NaN-05" \in Range(res.dates)
    /\ res.warnings = {}

\* the first four characters of date are the digits of a year of 2017..2026
YearInRange(date) ==
    /\ Len(date) >= 4
    /\ AllDigits(SubSeq(date, 1, 4))
    /\ StrToNat(SubSeq(date, 1, 4)) \in START_YEAR..END_YEAR

\* C16: every record get1823List returns has a date whose year is one of
\* 2017..2026, whatever the base dates, the RDATE values and the rules of the
\* events, and every date expandRRule returns has such a year.
C16_YearsWithinRange ==
    /\ fn = "get1823List" => \A i \in DOMAIN res.list : YearInRange(res.list[i].date)
    /\ fn = "expandRRule" => \A i \in DOMAIN res : YearInRange(res[i])

\* C16 witness: of an event of 2010 with a yearly rule and RDATEs of 2016,
\* 2020 and 2027, get1823List has returned the dates of 2017, 2018 and 2020
C16_Witness ==
    /\ fn = "get1823List"
    /\ EnFiles[arg.en].status = "ok"
    /\ \E item \in Range(extractEvents(ReadEn(EnFiles[arg.en]))) : getDate(item) = "2010-07-01"
    /\ {YearOf(res.list[i].date) : i \in DOMAIN res.list} = {2017, 2018, 2020}

\* C19 (as claimed): every date in the output of get1823List is a real
\* calendar date, YYYY-MM-DD with a month 01..12 and a day from 01 to the last
\* day of that month in that year, whatever the feeds hold.
C19_AsClaimed ==
    fn = "get1823List" =>
        \A i \in DOMAIN res.list :
            /\ Pattern(res.list[i].date) = "dddd-dd-dd"
            /\ ValidDateString(res.list[i].date)

\* C19 (what the code does): the event whose DTSTART is 20241332 is returned
\* under the date 2024-13-32.
C19_Witness ==
    /\ fn = "get1823List"
    /\ \E item \in Range(extractEvents(ReadEn(EnFiles[arg.en]))) :
          getDate(item) = "2024-13-32"
    /\ \E i \in DOMAIN res.list :
          /\ res.list[i].date = "2024-13-32"
          /\ res.list[i].name_en = "No Such Day"

\* the dates an event's RDATE and EXDATE values name, as addDates reads them
RDatesOf(item) == Range(addDates(Or(Get(item, "rdate"), Get(item, "RDATE"))))
EXDatesOf(item) == Range(addDates(Or(Get(item, "exdate"), Get(item, "EXDATE"))))

\* the dates the event's rule gives
RuleDatesOf(item, tzEast) ==
    IF Truthy(Or(Get(item, "rrule"), Get(item, "RRULE")))
    THEN Range(expandRRule(JsString(Or(Get(item, "rrule"), Get(item, "RRULE"))),
                           getDate(item), tzEast))
    ELSE {}

\* C20 (as claimed): in expandDates exclusions are applied last: no date
\* listed in the event's EXDATE is in the expanded set, be it the base date, a
\* date of the rule or an RDATE, and every parseable RDATE that is not excluded
\* is in the set.
C20_AsClaimed ==
    fn = "expandDates" =>
        /\ Range(res.dates) \cap EXDatesOf(arg.item) = {}
        /\ (RDatesOf(arg.item) \ EXDatesOf(arg.item)) \subseteq Range(res.dates)

\* C20 (amended): for an event whose start date is parseable, the expanded set
\* is the base date, the dates of the rule and the parseable RDATEs, less the
\* parseable EXDATEs; an event without a parseable start date expands to
\* nothing, its RDATEs included.
C20_ExclusionsLast ==
    fn = "expandDates" =>
        IF getDate(arg.item) = ""
        THEN res.dates = <<>>
        ELSE /\ Range(res.dates) =
                    (({getDate(arg.item)} \cup RuleDatesOf(arg.item, arg.tzEast))
                        \cup RDatesOf(arg.item)) \ EXDatesOf(arg.item)
             /\ \A i, j \in DOMAIN res.dates : i # j => res.dates[i] # res.dates[j]

\* C20 witness: of an event of 1 March 2024 with a rule for every 5 April,
\* RDATEs 5 April 2025 and 6 June 2026 and the same two dates as EXDATEs, the
\* expansion keeps the base date and the other nine 5 Aprils
C20_Witness ==
    /\ fn = "expandDates"
    /\ arg.class = "excluded"
    /\ Truthy(arg.item.rrule)
    /\ arg.item.RDATE = Arr(<<Str("20250405"), Str("20260606")>>)
    /\ arg.item.EXDATE = Arr(<<Str("2025-04-05"), Str("20260606"), Str("bad")>>)
    /\ Range(res.dates) =
          {"2024-03-01"} \cup {DateStr(y, 4, 5) : y \in YearsInRange \ {2025}}

\* the records get1823All builds when the array is what the remote endpoint
\* answers and there is no local file
RecordsFromRemote(array) == EnRecords(AcquireEn(Absent, Absent, array, GEmptyText))

\* the dates and English names of a list of records, in order
DatesAndNames(records) ==
    [i \in DOMAIN records |-> <<records[i].date, records[i].name_en>>]

LocalJsonArrayUsed ==
    /\ fn = "get1823All"
    /\ arg.lj.state = "ok"
    /\ arg.lj.value.t = "arr"

\* C21 (as claimed): the records generate.js builds from a local
\* inputs/1823_en.json have the same dates and the same name_en as the records
\* it builds when the same JSON array is the answer of the remote endpoint.
C21_AsClaimed ==
    LocalJsonArrayUsed =>
        DatesAndNames(res.records) = DatesAndNames(RecordsFromRemote(arg.lj.value))

\* C21 (what the code does): from the local array [{date: "2024-01-01",
\* title: "New Year"}] the record of 1 January 2024 has an empty name_en, from
\* the same array answered by the endpoint it is named "New Year".
C21_Witness ==
    /\ LocalJsonArrayUsed
    /\ arg.lj.value = GArr(<<NewYearEntry>>)
    /\ res.from = "local json"
    /\ DatesAndNames(res.records) = <<<<"2024-01-01", "">>>>
    /\ DatesAndNames(RecordsFromRemote(arg.lj.value)) = <<<<"2024-01-01", "New Year">>>>

PlainYearlyExpanded == fn = "expandRRule" /\ arg.rule = "FREQ=YEARLY"

\* the base date's month and day in each year of the range, in order
SameDayEachYear(base) ==
    [i \in 1..(END_YEAR - START_YEAR + 1) |->
        DateStr(START_YEAR + i - 1, StrToNat(SubSeq(base, 6, 7)),
                StrToNat(SubSeq(base, 9, 10)))]

\* C18 (as claimed): for a yearly rule without BYMONTH, BYMONTHDAY and BYDAY
\* expandRRule yields, for each year 2017..2026, the date with the month and
\* day of the base date string, whatever the time zone of the host.
C18_AsClaimed ==
    PlainYearlyExpanded => res = SameDayEachYear(arg.base)

\* C18 (what the code does): on a host east of Greenwich the rule of an event
\* based on 25 December is expanded to 24 December of every year.
C18_Witness ==
    /\ PlainYearlyExpanded
    /\ arg.base = "2024-12-25"
    /\ arg.tzEast
    /\ Len(res) = END_YEAR - START_YEAR + 1
    /\ \A i \in DOMAIN res : res[i] = DateStr(START_YEAR + i - 1, 12, 24)

\* the days of month m of year y that fall on weekday w (0 = Sunday)
DaysOn(y, m, w) == {d \in 1..MonthLength(y, m) : UTCDay(y, m, d) = w}

Abs(n) == IF n < 0 THEN 0 - n ELSE n

\* C17: for n >= 1 nthWeekday returns the day of the n-th occurrence of the
\* weekday in the month, for n <= -1 the day of the |n|-th occurrence counted
\* from the end of the month; it returns null (0 here) exactly when n is 0 or
\* the month has fewer than |n| such days.
C17_NthOccurrence ==
    fn = "nthWeekday" =>
        LET days == DaysOn(arg.year, arg.month, arg.weekday)
        IN  IF arg.n = 0 \/ Cardinality(days) < Abs(arg.n)
            THEN res = 0
            ELSE /\ res \in days
                 /\ arg.n > 0 => Cardinality({d \in days : d < res}) = arg.n - 1
                 /\ arg.n < 0 => Cardinality({d \in days : d > res}) = Abs(arg.n) - 1

\* C17 witness: the fifth Thursday from the end of February 2024 is the 1st
C17_Witness ==
    /\ fn = "nthWeekday"
    /\ arg.year = 2024 /\ arg.month = 2 /\ arg.weekday = 4 /\ arg.n = 0 - 5
    /\ res = 1

(***************************************************************************)
(* Properties of a run of fetch_company_holidays.mjs                       *)
(***************************************************************************)
EnEvents == extractEvents(ReadEn(EnFiles[env.en]))
ZhEvents == extractEvents(ReadZh(ZhFiles[env.zh]))
FeedEvents == Range(EnEvents) \cup Range(ZhEvents)

AllFile == "company_holidays_ALL.json"

Listing == pc \in {"loop", "done", "failed"}

\* a precedes b as a string, compared by code units
DateBefore(a, b) == a # b /\ StrLeq(a, b)

StrictlyAscending(list) ==
    \A i, j \in DOMAIN list : i < j => DateBefore(list[i].date, list[j].date)

\* C1: for every pair of feeds the list get1823List returns, every per-year
\* list and every list written to a file is strictly ascending by date: no two
\* records share a date and each date is greater than the ones before it.
C1_ListsStrictlyAscending ==
    Listing =>
        /\ StrictlyAscending(all)
        /\ \A y \in DOMAIN lists : StrictlyAscending(lists[y])
        /\ \A n \in DOMAIN files : StrictlyAscending(files[n])

\* C1 witness: a feed whose events are not in date order and span two years
\* has been listed and written
C1_Witness ==
    /\ pc = "done"
    /\ env.en = 8
    /\ Len(files[AllFile]) = 3
    /\ Cardinality(DOMAIN lists) = 2

\* the name of an event is a string that is not blank
Named(item) == NameValue(item).t = "str" /\ Trim(NameValue(item).s) # ""

NoExDate(item) == ~Truthy(Or(Get(item, "exdate"), Get(item, "EXDATE")))

\* one English and one Chinese event, both named, on the same date of 2017-2026
OneEventEachOnSameDate ==
    /\ Len(EnEvents) = 1
    /\ Len(ZhEvents) = 1
    /\ getDate(EnEvents[1]) # ""
    /\ getDate(EnEvents[1]) = getDate(ZhEvents[1])
    /\ StrToNat(SubSeq(getDate(EnEvents[1]), 1, 4)) \in START_YEAR..END_YEAR
    /\ Named(EnEvents[1]) /\ Named(ZhEvents[1])
    /\ NoExDate(EnEvents[1]) /\ NoExDate(ZhEvents[1])

\* C5: given one English and one Chinese event on the same date, get1823List
\* returns exactly one record for that date; its name_en is the name of the
\* English event and its name_zh the name of the Chinese event (both with the
\* blanks around them removed), and neither is empty.
C5_OneRecordWithBothNames ==
    (Listing /\ OneEventEachOnSameDate) =>
        /\ pc # "failed"
        /\ Cardinality({i \in DOMAIN all : all[i].date = getDate(EnEvents[1])}) = 1
        /\ \A i \in DOMAIN all :
              all[i].date = getDate(EnEvents[1]) =>
                  /\ all[i].name_en = Trim(NameValue(EnEvents[1]).s)
                  /\ all[i].name_zh = Trim(NameValue(ZhEvents[1]).s)
                  /\ all[i].name_en # ""
                  /\ all[i].name_zh # ""

\* C5 witness: the two feeds that hold National Day of 2018 have been merged
C5_Witness ==
    /\ pc = "done"
    /\ OneEventEachOnSameDate
    /\ all = <<[date |-> "2018-10-01", name_en |-> "National Day", name_zh |-> "Guoqing",
                statutory |-> FALSE, source |-> "1823"]>>

\* no event of either feed has a parseable start date
NoParseableEvent == \A item \in FeedEvents : getDate(item) = ""

C7_AsClaimed ==
    Listing =>
        /\ EnFiles[env.en].status # "ok" => <<"warn", 0, 0, "Failed to read en.json">> \in log
        /\ ZhFiles[env.zh].status = "badjson" =>
              <<"warn", 0, 0, "Failed to read zh.json">> \in log
        /\ \A e \in log :
              (e[1] = "fetch" /\ e[4] \in {"throw", "nonok"}) =>
                  <<"warn", e[2], e[3], "Failed to fetch">> \in log
        /\ pc = "failed" => \E item \in FeedEvents : getNameThrows(item)
        /\ pc = "done" => AllFile \in DOMAIN files

\* C7 witness: a run with --statutory in which a statutory page answered
\* non-OK has ended, and no warning names that fetch
C7_Witness ==
    /\ pc = "done"
    /\ \E e \in log :
          /\ e[1] = "fetch"
          /\ e[4] = "nonok"
          /\ <<"warn", e[2], e[3], "Failed to fetch">> \notin log

\* a record of date d can come from item: d is its start date, a parseable
\* entry of its RDATE, or item has a recurrence rule
Yields(item, d) ==
    /\ getDate(item) # ""
    /\ \/ d = getDate(item)
       \/ Truthy(Or(Get(item, "rrule"), Get(item, "RRULE")))
       \/ \E x \in Range(LET rd == Or(Get(item, "rdate"), Get(item, "RDATE"))
                         IN  IF rd.t = "arr" THEN rd.a ELSE <<rd>>) :
             /\ getDate([date |-> FirstIfArray(x)]) # ""
             /\ d = getDate([date |-> FirstIfArray(x)])

\* C8: an event whose start date is absent or unparseable contributes no
\* record, whatever RRULE or RDATE it carries, and an unparseable RDATE entry
\* contributes none either: every record comes from an event with a parseable
\* start.  Such events raise no error: the run fails only on an event that has
\* a parseable start.
C8_UnparseableDatesDropped ==
    Listing =>
        /\ \A i \in DOMAIN all : \E item \in FeedEvents : Yields(item, all[i].date)
        /\ pc = "failed" => \E item \in FeedEvents : getDate(item) # "" /\ getNameThrows(item)

\* C8 witness: a feed that holds an event with an unparseable start and an
\* RDATE, next to events with a start, has been listed to the end
C8_Witness ==
    /\ pc = "done"
    /\ Len(all) > 0
    /\ \E item \in FeedEvents :
          getDate(item) = "" /\ Truthy(Or(Get(item, "rdate"), Get(item, "RDATE")))

WrittenRecords == UNION {Range(files[n]) : n \in DOMAIN files}

\* C10: without --statutory no statutory page is fetched and every written
\* record has statutory = false; with it, a page is fetched for every year
\* processed and every record's statutory value is the membership of its date
\* in the set obtained for the record's year.
C10_FlagDecidesStatutory ==
    Listing =>
        /\ ~env.flag =>
              /\ \A e \in log : e[1] # "fetch"
              /\ statsOf = <<>>
              /\ \A h \in WrittenRecords : ~h.statutory
        /\ env.flag =>
              /\ \A y \in DOMAIN statsOf : \E e \in log : e[1] = "fetch" /\ e[2] = StrToNat(y)
              /\ \A n \in DOMAIN files : \A h \in Range(files[n]) :
                    /\ SubSeq(h.date, 1, 4) \in DOMAIN statsOf
                    /\ h.statutory = (h.date \in statsOf[SubSeq(h.date, 1, 4)])

\* C10 witness: a run with --statutory has written a record that is marked and
\* one that is not
C10_Witness ==
    /\ pc = "done"
    /\ env.flag
    /\ \E h \in Range(files[AllFile]) : h.statutory
    /\ \E h \in Range(files[AllFile]) : ~h.statutory

\* a record without its statutory field
Unmarked(h) == [date |-> h.date, name_en |-> h.name_en, name_zh |-> h.name_zh,
                source |-> h.source]

SameButStatutory(before, after) ==
    /\ Len(after) = Len(before)
    /\ \A i \in DOMAIN before : Unmarked(after[i]) = Unmarked(before[i])

StatutoryPass == pc = "loop" /\ env.flag /\ yi <= Len(YearsOf(lists)) /\ yi' = yi + 1

\* C11: the statutory pass of a year changes only the statutory field of the
\* year's records: the list written holds the same records in the same order,
\* each with the date, name_en, name_zh and source it had before the pass, and
\* the lists of the other years are untouched.
C11_PassChangesOnlyStatutory ==
    [][StatutoryPass =>
          /\ DOMAIN lists' = DOMAIN lists
          /\ \A y \in DOMAIN lists :
                IF y = YearsOf(lists)[yi]
                THEN /\ SameButStatutory(lists[y], lists'[y])
                     /\ files'[YearFileName(y)] = lists'[y]
                ELSE lists'[y] = lists[y]]_vars

\* C11 witness: a run with --statutory has ended whose pass marked one record
\* of several; but for the mark, the records written are the ones listed
C11_Witness ==
    /\ pc = "done"
    /\ env.flag
    /\ Len(all) >= 2
    /\ SameButStatutory(all, files[AllFile])
    /\ \E i \in DOMAIN all : files[AllFile][i].statutory /\ ~all[i].statutory
    /\ \E i \in DOMAIN all : ~files[AllFile][i].statutory

RECURSIVE SumOfTotals(_)
SumOfTotals(rows) ==
    IF Len(rows) = 0 THEN 0 ELSE rows[1].total + SumOfTotals(Tail(rows))

\* the row of the report tells the truth about the list written for its year
TrueRow(row, written) ==
    /\ row.total = Len(written)
    /\ row.missingZh = Cardinality({i \in DOMAIN written : written[i].name_zh = ""})
    /\ row.missingEn = Cardinality({i \in DOMAIN written : written[i].name_en = ""})
    /\ row.dupCount = Len(written) - Cardinality({written[i].date : i \in DOMAIN written})
    /\ row.statCount = Cardinality({i \in DOMAIN written : written[i].statutory})

\* C13: the report has one row for every year written, in the order of the
\* years, and the row carries the true counts of the list written for that
\* year: records, records without name_zh, records without name_en, records
\* minus distinct dates, records marked statutory.  The total is the sum of
\* the rows' totals and, at the end, the length of company_holidays_ALL.json.
C13_ReportCountsAreTrue ==
    (pc \in {"loop", "done"}) =>
        /\ Len(report.rows) = yi - 1
        /\ \A k \in DOMAIN report.rows :
              /\ report.rows[k].year = YearsOf(lists)[k]
              /\ YearFileName(report.rows[k].year) \in DOMAIN files
              /\ TrueRow(report.rows[k], files[YearFileName(report.rows[k].year)])
        /\ report.total = SumOfTotals(report.rows)
        /\ pc = "done" => report.total = Len(files[AllFile])

\* C13 witness: a report with two rows and a total of three has been written;
\* it counts a statutory record and a record without a Chinese name
C13_Witness ==
    /\ pc = "done"
    /\ report.written
    /\ Len(report.rows) = 2
    /\ report.total = 3
    /\ \E k \in DOMAIN report.rows : report.rows[k].statCount > 0
    /\ \E k \in DOMAIN report.rows :
          report.rows[k].missingZh > 0 /\ report.rows[k].missingEn = 0

(***************************************************************************)
(* Properties of a call of fetchSafe                                       *)
(***************************************************************************)
\* the requests made so far
Requests == {i \in DOMAIN rlog : rlog[i][1] = "fetch"}

\* the first attempt within `tries` that succeeds, 0 if none does
FirstOk ==
    IF \E n \in 1..rcall.tries : rcall.net[n] = "ok"
    THEN CHOOSE n \in 1..rcall.tries :
            rcall.net[n] = "ok" /\ \A m \in 1..(n - 1) : rcall.net[m] # "ok"
    ELSE 0

\* rlog is request, warning, sleep, request, ... with the attempts numbered
\* from 1, every sleep followed by the next request, and the sleep after
\* attempt n lasting BASE_DELAY_MS * n plus less than JITTER_MS
WellPaced ==
    \A i \in DOMAIN rlog :
        LET e == rlog[i]
        IN  CASE e[1] = "fetch" ->
                   IF i = 1 THEN e[2] = 1
                   ELSE rlog[i - 1][1] = "sleep" /\ rlog[i - 1][2] = e[2] - 1
              [] e[1] = "warn" ->
                   /\ i > 1 /\ rlog[i - 1] = <<"fetch", e[2], 0>>
                   /\ rcall.net[e[2]] # "ok"
                   /\ IF i = Len(rlog) THEN rpc = "sleep" \/ e[2] = rcall.tries
                      ELSE rlog[i + 1][1] = "sleep" /\ rlog[i + 1][2] = e[2]
              [] OTHER ->
                   /\ i > 1 /\ rlog[i - 1] = <<"warn", e[2], 0>>
                   /\ e[2] < rcall.tries
                   /\ e[3] >= BASE_DELAY_MS * e[2]
                   /\ e[3] < BASE_DELAY_MS * e[2] + JITTER_MS
                   /\ i = Len(rlog) => rpc = "loop"

\* C12: fetchSafe makes at most `tries` requests, one after another; it
\* returns the body of the first request that succeeds and makes none after
\* it; between a failed request and the next it sleeps 500 ms times the
\* number of the failed attempt plus a jitter below 300 ms, so the delays grow
\* with the attempt number; after the last failed request it returns the
\* empty value of its type ('' for text, null for json) without a further
\* sleep; it never ends in another way.
C12_FixedCountRetry ==
    /\ rpc \in {"idle", "loop", "sleep", "returned"}
    /\ Cardinality(Requests) <= rcall.tries
    /\ WellPaced
    /\ rpc = "returned" =>
          /\ Len(rlog) > 0 => rlog[Len(rlog)][1] # "sleep"
          /\ IF FirstOk # 0
             THEN rret = BodyOf(FirstOk) /\ Cardinality(Requests) = FirstOk
             ELSE rret = EmptyValue(rcall.type) /\ Cardinality(Requests) = rcall.tries

\* C12 witness: a call with tries = 3 has returned the body of its third
\* request, after a timeout and a non-OK answer and a sleep after each
C12_Witness ==
    /\ rpc = "returned"
    /\ rcall.tries = 3
    /\ rcall.type = "json"
    /\ rret = BodyOf(3)
    /\ Len(rlog) = 7
    /\ rlog[3][3] < rlog[6][3]

(***************************************************************************)
(* Properties of the sources of generate.js                                *)
(***************************************************************************)
SourceTried == fn \in {"LocalOrWeb", "AcquireEn", "AcquireTc"}

\* some local file of the source is present
LocalPresent ==
    CASE arg.kind = "page" -> existsSync(arg.local)
      [] arg.kind = "en" -> existsSync(arg.lj) \/ existsSync(arg.li)
      [] OTHER -> \E i \in 1..2 : existsSync(arg.lj[i]) \/ existsSync(arg.li[i])

IsWeb(event) == SubSeq(event, 1, 4) = "web:"

WebTried == \E i \in DOMAIN res.trace : IsWeb(res.trace[i])

\* the order the claim gives: local JSON, local ICS, remote JSON, remote ICS
TryOrder ==
    CASE arg.kind = "page" -> <<"local:page", "web:page">>
      [] arg.kind = "en" ->
           <<"local:1823_en.json", "local:1823_en.ics", "web:en.json", "web:en.ics">>
      [] OTHER ->
           <<"local:1823_tc.json", "local:1823_zh.json", "local:1823_tc.ics",
             "local:1823_zh.ics", "web:tc.json", "web:zh.json", "web:tc.ics", "web:zh.ics">>

PlaceOf(event) == CHOOSE k \in DOMAIN TryOrder : TryOrder[k] = event

InTryOrder ==
    \A i, j \in DOMAIN res.trace : i < j => PlaceOf(res.trace[i]) < PlaceOf(res.trace[j])

LocalValue ==
    CASE arg.kind = "page" -> GTruthy(readIfExists(arg.local))
      [] arg.kind = "en" -> GTruthy(readIfExists(arg.lj))
      [] OTHER -> \E i \in 1..2 : GTruthy(readIfExists(arg.lj[i]))

\* a local ICS file is present
LocalIcs ==
    CASE arg.kind = "page" -> FALSE
      [] arg.kind = "en" -> existsSync(arg.li)
      [] OTHER -> \E i \in 1..2 : existsSync(arg.li[i])

SkippedYears ==
    {y \in START_YEAR..LAST_GOVHK_YEAR : <<"GovHK unavailable, skip this year", y>> \in glog}
    \cup (IF <<"1823 not available, skipping", FIRST_1823_YEAR>> \in glog
          THEN FIRST_1823_YEAR..END_YEAR ELSE {})

\* C15 (as claimed): a year whose general-holiday source is unavailable, from
\* the web and from the local files, is skipped and logged: the output holds
\* no record dated in that year, whatever the Labour page gives for it.
C15_AsClaimed ==
    gpc = "done" =>
        \A y \in SkippedYears : \A i \in DOMAIN gout : ~StartsWithYear(gout[i], y)

\* C15 witness: the GovHK pages of 2017 were unavailable and the year logged
\* as skipped, and the output holds the statutory date of its Labour page
C15_Witness ==
    /\ gpc = "done"
    /\ <<"GovHK unavailable, skip this year", START_YEAR>> \in glog
    /\ \E i \in DOMAIN gout :
          gout[i] = [date |-> Jan1(START_YEAR), name_en |-> "", name_zh |-> "",
                     general |-> FALSE, statutory |-> TRUE]

\* C2 (as claimed): the list written to hk_holidays_2017_2026.json holds at
\* most one record per date, whatever the GovHK, 1823 and Labour inputs.
C2_AsClaimed ==
    gpc = "done" => \A i, j \in DOMAIN gout : i # j => gout[i].date # gout[j].date

\* C2 witness: the written list holds a general holiday of 1 January 2024 and,
\* next to it, a nameless statutory record of the same date
C2_Witness ==
    /\ gpc = "done"
    /\ \E i, j \in DOMAIN gout :
          /\ gout[i].date = "2024-01-01"
          /\ gout[j].date = "2024-01-01"
          /\ gout[i].general /\ ~gout[i].statutory
          /\ ~gout[j].general /\ gout[j].statutory

====
